---- MODULE Spec2Model ----
(***************************************************************************)
(* Real-time session and room-membership core of the messaging app:        *)
(* messaging-app/server.js (socket handlers, ban and clear-room routes)    *)
(* over the persistence functions of db.js.                                *)
(*                                                                         *)
(* Every handler is cut at its awaits: the part before an await is one     *)
(* action, the database statement is executed by the action that the       *)
(* comments name, and the continuation is another action.  Handlers of     *)
(* different connections, and different handlers of one connection,        *)
(* interleave between those actions, as on the node event loop.            *)
(***************************************************************************)
EXTENDS Integers, Sequences, FiniteSets, TLC

\* ------------------------------------------------------------------ bounds
NumUsers == 3
MaxConns == 2
MaxMsgs  == 2
MaxOps   == 4
MaxKeyId == 12
\* the LIMIT of the history query (50 in the source), scaled below MaxMsgs
HistoryLimit == 1

\* ---------------------------------------------------------------- constants
MaxImageLen == 3000000
MaxAvatarLen == 700000

Users  == 1..NumUsers
Conns  == 1..MaxConns
NoUser == 0

\* users.is_admin: set by hand in the database, never written by the server.
\* The model gives the flag to the last user id.
IsAdmin(u) == u = NumUsers

\* A jwt: 0 is a token jwt.verify rejects, u > 0 a token signed for user u.
Tokens == {0} \cup Users

\* A token with a valid signature whose id has no row in users.
UnknownUser == NumUsers + 1
AuthTokens == Tokens \cup {UnknownUser}

\* ------------------------------------------------------------------- rooms
\* A room key is a string; the model keeps what the server reads of it:
\* whether it starts with "dm:", the numbers of its 2nd and 3rd segment, and
\* whether more segments follow.
NoRoom  == [kind |-> "none", id1 |-> 0, id2 |-> 0, tail |-> 0]
General == [kind |-> "general", id1 |-> 0, id2 |-> 0, tail |-> 0]
Dm(a, b) == [kind |-> "dm", id1 |-> a, id2 |-> b, tail |-> 0]

\* The room keys clients send: "general", "dm:1:2", and the same pair the
\* other way round, "dm:2:1".
DmRooms == {General, Dm(1, 2)}
RoomInputs == DmRooms \cup {Dm(2, 1)}

\* room.startsWith('dm:')
StartsWithDm(room) == room.kind = "dm"

\* const [, id1, id2] = room.split(':').map(Number);
\* if (socket.user.id !== id1 && socket.user.id !== id2) return;
RoomAllows(uid, room) ==
  StartsWithDm(room) => (uid = room.id1 \/ uid = room.id2)

\* const recipientId = socket.user.id === id1 ? id2 : id1;
RecipientId(uid, room) == IF uid = room.id1 THEN room.id2 ELSE room.id1

\* ---------------------------------------------------------------- room keys
\* The room key as the string it is: a sequence of characters.
Min(a, b) == IF a <= b THEN a ELSE b
Max(a, b) == IF a >= b THEN a ELSE b

DigitChars == <<"0", "1", "2", "3", "4", "5", "6", "7", "8", "9">>

\* a number in a template literal: its decimal digits
RECURSIVE Digits(_)
Digits(n) ==
  IF n < 10 THEN <<DigitChars[n + 1]>>
            ELSE Digits(n \div 10) \o <<DigitChars[(n % 10) + 1]>>

\* `dm:${myId}:${otherUser.id}`
DmKeyUnordered(a, b) ==
  <<"d", "m", ":">> \o Digits(a) \o <<":">> \o Digits(b)
\* `dm:${Math.min(myId, otherUser.id)}:${Math.max(myId, otherUser.id)}`
DmKey(a, b) ==
  <<"d", "m", ":">> \o Digits(Min(a, b)) \o <<":">> \o Digits(Max(a, b))

GeneralKey == <<"g", "e", "n", "e", "r", "a", "l">>

\* String.prototype.split(':')
RECURSIVE SplitColon(_, _, _)
SplitColon(s, cur, acc) ==
  IF s = <<>> THEN Append(acc, cur)
  ELSE IF Head(s) = ":" THEN SplitColon(Tail(s), <<>>, Append(acc, cur))
  ELSE SplitColon(Tail(s), Append(cur, Head(s)), acc)

NaN == -1

\* Number(segment): '' is 0, decimal digits are their value, anything else NaN
RECURSIVE NumberOf(_, _)
NumberOf(seg, acc) ==
  IF seg = <<>> THEN acc
  ELSE IF \E d \in 1..10 : DigitChars[d] = Head(seg)
    THEN NumberOf(Tail(seg),
                  10 * acc + (CHOOSE d \in 0..9 : DigitChars[d + 1] = Head(seg)))
    ELSE NaN

\* What the server reads of a room key: room.startsWith('dm:') and
\* const [, id1, id2] = room.split(':').map(Number) (a missing segment is
\* undefined, which equals no id).
RoomOf(key) ==
  LET segs == SplitColon(key, <<>>, <<>>)
  IN  IF Len(key) >= 3 /\ SubSeq(key, 1, 3) = <<"d", "m", ":">>
        THEN [kind |-> "dm",
              id1 |-> NumberOf(segs[2], 0),
              id2 |-> IF Len(segs) >= 3 THEN NumberOf(segs[3], 0) ELSE NaN,
              tail |-> IF Len(segs) > 3 THEN 1 ELSE 0]
        ELSE IF key = GeneralKey THEN General
        ELSE [kind |-> "other", id1 |-> 0, id2 |-> 0, tail |-> 0]

\* ------------------------------------------------------ message payloads
\* Text is a sequence of characters; " " is the whitespace character.
Contents == {<<>>, <<" ">>, <<" ", "h">>, <<"h">>}

\* The texts an edit_message carries: whitespace only, and a new text.
Edits == {<<" ">>, <<" ", "e">>}

RECURSIVE TrimLeft(_)
TrimLeft(s) == IF s # <<>> /\ Head(s) = " " THEN TrimLeft(Tail(s)) ELSE s

RECURSIVE TrimRight(_)
TrimRight(s) ==
  IF s # <<>> /\ s[Len(s)] = " " THEN TrimRight(SubSeq(s, 1, Len(s) - 1)) ELSE s

\* String.prototype.trim
Trim(s) == TrimRight(TrimLeft(s))

\* imageData is modelled by its length; 0 is "no image" (undefined, null, '').
ImageLens == {0, 1, MaxImageLen + 1}

\* Avatar colours are strings; the column default is '#7289da'.
DefaultColor == <<"#", "7", "2", "8", "9", "d", "a">>
HexChars == {"0", "1", "2", "3", "4", "5", "6", "7", "8", "9",
             "a", "b", "c", "d", "e", "f", "A", "B", "C", "D", "E", "F"}

\* /^#[0-9a-fA-F]{6}$/.test(color)
ValidColor(color) ==
  /\ Len(color) = 7
  /\ color[1] = "#"
  /\ \A i \in 2..7 : color[i] \in HexChars

\* The colours a request carries: a valid one, one digit short, without '#',
\* and with a letter that is no hex digit.
Colors == {<<"#", "0", "9", "a", "f", "A", "F">>,
           <<"#", "0", "9", "a", "f", "A">>,
           <<"0", "9", "a", "f", "A", "F", "0">>,
           <<"#", "0", "9", "a", "f", "A", "g">>}

\* the avatar image by its length, as imageData
AvatarLens == {0, 1, MaxAvatarLen + 1}

\* ------------------------------------------------------------------- state
VARIABLES
  connState,    \* per socket: "new" (not yet connected), "open", "closed"
  sockUser,     \* socket.user's id, NoUser while socket.user is undefined
  rooms,        \* the adapter's rooms of each socket id
  userSockets,  \* the userSockets Map: user id -> Set of socket ids, in insertion order
  banned,       \* users.is_banned
  avatars,      \* users.avatar_color and the length of users.avatar_image
  messages,     \* the messages table: a set of rows
  nextId,       \* the SERIAL of messages.id
  reactions,    \* the reactions table: a set of <<message id, user id, emoji>>
  authH,        \* per socket: its authenticate handler
  sendH,        \* per socket: its send_message handler
  getH,         \* per socket: its get_messages handler
  editH,        \* per socket: its edit_message handler
  delH,         \* per socket: its delete_message handler
  reactH,       \* per socket: its toggle_reaction handler
  banH,         \* the /api/admin/ban handler
  clearH,       \* the /api/admin/clear handler
  avatarH,      \* the /api/avatar handler
  ops,          \* requests received so far
  last,         \* the step just taken
  out           \* what the step just taken emitted, in order

vars == <<connState, sockUser, rooms, userSockets, banned, avatars, messages,
          nextId, reactions, authH, sendH, getH, editH, delH, reactH, banH, clearH,
          avatarH, ops, last, out>>

\* the in-memory tables, the database, and the handlers in flight
mem      == <<connState, sockUser, rooms, userSockets>>
db       == <<banned, avatars, messages, nextId, reactions>>
sockHs   == <<authH, sendH, getH, editH, delH, reactH>>
httpHs   == <<banH, clearH, avatarH>>

Range(s) == {s[i] : i \in 1..Len(s)}

\* Set.prototype.add / Set.prototype.delete on an insertion-ordered Set
SetAdd(s, x) == IF x \in Range(s) THEN s ELSE Append(s, x)
SetDelete(s, x) == SelectSeq(s, LAMBDA y : y # x)

\* ------------------------------------------------------------------ emits
Emit(ev, to, user, room, msg, content) ==
  [ev |-> ev, to |-> to, user |-> user, room |-> room, msg |-> msg,
   content |-> content, flag |-> FALSE, items |-> {}]

\* socket.emit(ev, ...): a packet to one socket, dropped once it is closed
ToSocket(cs, c, ev, user, room, msg, content) ==
  Emit(ev, {c} \cap {x \in Conns : cs[x] = "open"}, user, room, msg, content)

\* io.emit(ev, ...): every socket of the namespace
ToAll(cs, ev, user, room, msg, content) ==
  Emit(ev, {x \in Conns : cs[x] = "open"}, user, room, msg, content)

\* io.to(room).emit(ev, ...): every connected socket the adapter has in room
ToRoom(cs, rs, room, ev, user, msg, content) ==
  Emit(ev, {x \in Conns : cs[x] = "open" /\ room \in rs[x]}, user, room, msg, content)

AuthIdle == [pc |-> "idle", uid |-> NoUser, isBanned |-> FALSE]
SendIdle == [pc |-> "idle", sender |-> NoUser, room |-> NoRoom, content |-> <<>>,
             image |-> 0, id |-> 0]
GetIdle  == [pc |-> "idle", room |-> NoRoom, ids |-> {}]
EditIdle == [pc |-> "idle", uid |-> NoUser, msg |-> 0, content |-> <<>>, room |-> NoRoom]
DelIdle  == [pc |-> "idle", uid |-> NoUser, admin |-> FALSE, msg |-> 0, room |-> NoRoom]
ReactIdle == [pc |-> "idle", uid |-> NoUser, msg |-> 0, emoji |-> 0]
ClearIdle == [pc |-> "idle", room |-> NoRoom]
AvatarIdle == [pc |-> "idle", uid |-> NoUser, color |-> <<>>, image |-> 0]
BanIdle  == [pc |-> "idle", target |-> NoUser, newBanned |-> FALSE]

Step(op, c, u, room) == [op |-> op, conn |-> c, user |-> u, room |-> room]

\* a step of a handler that names a message by its id
StepOn(op, c, u, m) ==
  [op |-> op, conn |-> c, user |-> u, room |-> NoRoom, msg |-> m]

\* ------------------------------------------------------------------- Init
Init ==
  /\ connState = [c \in Conns |-> "new"]
  /\ sockUser = [c \in Conns |-> NoUser]
  /\ rooms = [c \in Conns |-> {}]
  /\ userSockets = [u \in Users |-> <<>>]
  /\ banned = [u \in Users |-> FALSE]
  /\ avatars = [u \in Users |-> [color |-> DefaultColor, image |-> 0]]
  /\ messages = {}
  /\ nextId = 1
  /\ reactions = {}
  /\ authH = [c \in Conns |-> AuthIdle]
  /\ sendH = [c \in Conns |-> SendIdle]
  /\ getH = [c \in Conns |-> GetIdle]
  /\ editH = [c \in Conns |-> EditIdle]
  /\ delH = [c \in Conns |-> DelIdle]
  /\ reactH = [c \in Conns |-> ReactIdle]
  /\ banH = BanIdle
  /\ clearH = ClearIdle
  /\ avatarH = AvatarIdle
  /\ ops = 0
  /\ last = Step("init", 0, NoUser, NoRoom)
  /\ out = <<>>

\* ------------------------------------------------------------- connections
\* io.on('connection'): a transport connects and gets a fresh socket id
Connect(c) ==
  /\ connState[c] = "new"
  /\ connState' = [connState EXCEPT ![c] = "open"]
  /\ last' = Step("connect", c, NoUser, NoRoom)
  /\ out' = <<>>
  /\ UNCHANGED <<sockUser, rooms, userSockets, db, sockHs, httpHs, ops>>

\* A socket closes: socket.io takes it out of the namespace and of every room,
\* then runs the 'disconnect' handler.  st is [cs, rs, us, out]: connection
\* states, rooms, userSockets and the emits so far.
CloseSocket(st, c) ==
  LET u   == sockUser[c]
      cs1 == [st.cs EXCEPT ![c] = "closed"]
      rs1 == [st.rs EXCEPT ![c] = {}]
  IN  IF u = NoUser \/ st.us[u] = <<>>
        THEN [st EXCEPT !.cs = cs1, !.rs = rs1]
        ELSE LET left == SetDelete(st.us[u], c)
             IN  [cs |-> cs1, rs |-> rs1,
                  us |-> [st.us EXCEPT ![u] = left],
                  out |-> IF left = <<>>
                            THEN Append(st.out, ToAll(cs1, "user_offline", u, NoRoom, 0, <<>>))
                            ELSE st.out]

Here == [cs |-> connState, rs |-> rooms, us |-> userSockets, out |-> <<>>]

\* The client, or the network, closes the transport.
Disconnect(c) ==
  /\ connState[c] = "open"
  /\ LET st == CloseSocket(Here, c)
     IN  /\ connState' = st.cs
         /\ rooms' = st.rs
         /\ userSockets' = st.us
         /\ out' = st.out
  /\ last' = Step("disconnect", c, sockUser[c], NoRoom)
  /\ UNCHANGED <<sockUser, db, sockHs, httpHs, ops>>

\* ------------------------------------------------------------ authenticate
\* socket.on('authenticate') with a disconnect added to its catch block
AuthStartClosesOnFailure(c, tok) ==
  /\ connState[c] = "open"
  /\ authH[c].pc = "idle"
  /\ ops < MaxOps
  /\ ops' = ops + 1
  /\ last' = Step("authenticate", c, tok, NoRoom)
  /\ IF tok = 0
       THEN LET st == CloseSocket([Here EXCEPT !.out =
                        <<ToSocket(connState, c, "authenticated", NoUser, NoRoom, 0, <<>>)>>], c)
            IN  /\ connState' = st.cs
                /\ rooms' = st.rs
                /\ userSockets' = st.us
                /\ out' = st.out
                /\ UNCHANGED <<authH, sockUser>>
       ELSE /\ authH' = [authH EXCEPT ![c] = [pc |-> "db", uid |-> tok,
                                               isBanned |-> tok \in Users /\ banned[tok]]]
            /\ out' = <<>>
            /\ UNCHANGED mem
  /\ UNCHANGED <<db, sendH, getH, editH, delH, reactH, httpHs>>
\* socket.on('authenticate'), up to the await of db.getUserById: jwt.verify,
\* then the SELECT, which reads users.is_banned (no row for an unknown id).
AuthStart(c, tok) ==
  /\ connState[c] = "open"
  /\ authH[c].pc = "idle"
  /\ ops < MaxOps
  /\ ops' = ops + 1
  /\ last' = Step("authenticate", c, tok, NoRoom)
  /\ IF tok = 0
       THEN /\ out' = <<ToSocket(connState, c, "authenticated", NoUser, NoRoom, 0, <<>>)>>
            /\ UNCHANGED authH
       ELSE /\ authH' = [authH EXCEPT ![c] = [pc |-> "db", uid |-> tok,
                                               isBanned |-> tok \in Users /\ banned[tok]]]
            /\ out' = <<>>
  /\ UNCHANGED <<mem, db, sendH, getH, editH, delH, reactH, httpHs>>

\* if (!userSockets.has(user.id)) userSockets.set(user.id, new Set());
\* userSockets.get(user.id).add(socket.id);
Register(us, uid, c) == [us EXCEPT ![uid] = SetAdd(us[uid], c)]

\* io.emit('user_online', ...) of the authenticate handler
OnlineEmits(cs, us, uid) == <<ToAll(cs, "user_online", uid, NoRoom, 0, <<>>)>>

\* the authenticate continuation without socket.join('general')
AuthResumeNoJoin(c) ==
  /\ authH[c].pc = "db"
  /\ last' = Step("auth_resume", c, authH[c].uid, NoRoom)
  /\ IF authH[c].uid \notin Users
       THEN /\ out' = <<ToSocket(connState, c, "authenticated", NoUser, NoRoom, 0, <<>>)>>
            /\ authH' = [authH EXCEPT ![c] = AuthIdle]
            /\ UNCHANGED <<sockUser, userSockets, rooms>>
     ELSE IF authH[c].isBanned
       THEN /\ out' = <<ToSocket(connState, c, "banned", authH[c].uid, NoRoom, 0, <<>>)>>
            /\ authH' = [authH EXCEPT ![c] = AuthIdle]
            /\ UNCHANGED <<sockUser, userSockets, rooms>>
       ELSE LET uid == authH[c].uid
            IN  /\ sockUser' = [sockUser EXCEPT ![c] = uid]
                /\ userSockets' = Register(userSockets, uid, c)
                /\ rooms' = rooms
                /\ out' = <<[ToSocket(connState, c, "authenticated", uid, NoRoom, 0, <<>>)
                               EXCEPT !.flag = TRUE]>>
                          \o OnlineEmits(connState, userSockets, uid)
                /\ authH' = [authH EXCEPT ![c].pc = "roster"]
  /\ UNCHANGED <<connState, db, sendH, getH, editH, delH, reactH, httpHs, ops>>
\* The continuation after db.getUserById, up to the await of db.getAllUsers:
\* if (!user) throw new Error('User not found') lands in the catch block.
AuthResume(c) ==
  /\ authH[c].pc = "db"
  /\ last' = Step("auth_resume", c, authH[c].uid, NoRoom)
  /\ IF authH[c].uid \notin Users
       THEN /\ out' = <<ToSocket(connState, c, "authenticated", NoUser, NoRoom, 0, <<>>)>>
            /\ authH' = [authH EXCEPT ![c] = AuthIdle]
            /\ UNCHANGED <<sockUser, userSockets, rooms>>
     ELSE IF authH[c].isBanned
       THEN /\ out' = <<ToSocket(connState, c, "banned", authH[c].uid, NoRoom, 0, <<>>)>>
            /\ authH' = [authH EXCEPT ![c] = AuthIdle]
            /\ UNCHANGED <<sockUser, userSockets, rooms>>
       ELSE LET uid == authH[c].uid
            IN  /\ sockUser' = [sockUser EXCEPT ![c] = uid]
                /\ userSockets' = Register(userSockets, uid, c)
                /\ rooms' = [rooms EXCEPT ![c] = @ \cup {General}]
                /\ out' = <<[ToSocket(connState, c, "authenticated", uid, NoRoom, 0, <<>>)
                               EXCEPT !.flag = TRUE]>>
                          \o OnlineEmits(connState, userSockets, uid)
                /\ authH' = [authH EXCEPT ![c].pc = "roster"]
  /\ UNCHANGED <<connState, db, sendH, getH, editH, delH, reactH, httpHs, ops>>

\* db.getAllUsers() read at the moment the roster is sent
Roster == {u \in Users : banned[u]}

\* socket.emit('users_list', await db.getAllUsers())
AuthRoster(c) ==
  /\ authH[c].pc = "roster"
  /\ last' = Step("auth_roster", c, authH[c].uid, NoRoom)
  /\ out' = <<[ToSocket(connState, c, "users_list", NoUser, NoRoom, 0, <<>>)
                 EXCEPT !.items = Roster]>>
  /\ authH' = [authH EXCEPT ![c] = AuthIdle]
  /\ UNCHANGED <<mem, db, sendH, getH, editH, delH, reactH, httpHs, ops>>

\* db.getAllUsers rejects after the registration: the catch block of the
\* handler runs, socket.emit('authenticated', { success: false, ... }).
AuthRosterFail(c) ==
  /\ authH[c].pc = "roster"
  /\ last' = Step("auth_roster_failed", c, authH[c].uid, NoRoom)
  /\ out' = <<ToSocket(connState, c, "authenticated", NoUser, NoRoom, 0, <<>>)>>
  /\ authH' = [authH EXCEPT ![c] = AuthIdle]
  /\ UNCHANGED <<mem, db, sendH, getH, editH, delH, reactH, httpHs, ops>>

\* ------------------------------------------------------ room-scoped events
\* a join_room step; member tells whether the socket was in the room already
JoinStep(c, room) ==
  [op |-> "join_room", conn |-> c, user |-> sockUser[c], room |-> room,
   member |-> room \in rooms[c]]

\* join_room leaving a room the socket is in
JoinRoomToggle(c, room) ==
  /\ connState[c] = "open"
  /\ ops < MaxOps
  /\ ops' = ops + 1
  /\ last' = JoinStep(c, room)
  /\ out' = <<>>
  /\ rooms' = IF sockUser[c] # NoUser
                THEN [rooms EXCEPT ![c] = IF room \in @ THEN @ \ {room} ELSE @ \cup {room}]
                ELSE rooms
  /\ UNCHANGED <<connState, sockUser, userSockets, db, sockHs, httpHs>>
\* socket.on('join_room', (room) => { if (socket.user) socket.join(room); })
JoinRoomUnguarded(c, room) ==
  /\ connState[c] = "open"
  /\ ops < MaxOps
  /\ ops' = ops + 1
  /\ last' = JoinStep(c, room)
  /\ out' = <<>>
  /\ rooms' = [rooms EXCEPT ![c] = @ \cup {room}]
  /\ UNCHANGED <<connState, sockUser, userSockets, db, sockHs, httpHs>>
JoinRoom(c, room) ==
  /\ connState[c] = "open"
  /\ ops < MaxOps
  /\ ops' = ops + 1
  /\ last' = JoinStep(c, room)
  /\ out' = <<>>
  /\ rooms' = IF sockUser[c] # NoUser
                THEN [rooms EXCEPT ![c] = @ \cup {room}]
                ELSE rooms
  /\ UNCHANGED <<connState, sockUser, userSockets, db, sockHs, httpHs>>

\* client.js openDm(otherUser) on the page of connection c, whose myId is the
\* identity it authenticated as, for a room that is not the current one:
\* openRoom emits join_room and get_messages with the key, and the server
\* handles join_room and the part of get_messages before its await.
OpenDm(c, other) ==
  LET myId == sockUser[c]
      key  == DmKey(myId, other)
      room == RoomOf(key)
  IN  /\ connState[c] = "open"
      /\ myId # NoUser
      /\ other # myId
      /\ getH[c].pc = "idle"
      /\ ops < MaxOps
      /\ ops' = ops + 1
      /\ last' = [op |-> "open_dm", conn |-> c, user |-> myId, room |-> room,
                  other |-> other, key |-> key]
      /\ out' = <<>>
      /\ rooms' = [rooms EXCEPT ![c] = @ \cup {room}]
      /\ getH' = IF RoomAllows(myId, room)
                   THEN [getH EXCEPT ![c] = [pc |-> "db", room |-> room,
                                             ids |-> {m.id : m \in {x \in messages : x.room = room}}]]
                   ELSE getH
      /\ UNCHANGED <<connState, sockUser, userSockets, db, authH, sendH, editH, delH,
                     reactH, httpHs>>

\* db.getMessages(room): WHERE m.room = $1 ORDER BY m.created_at ASC LIMIT 50.
\* Ids stand for the rows; rows are created in the order of their ids, so the
\* statement returns the rows of the room that have fewer than HistoryLimit
\* rows of the room before them.
MessagesOf(room) ==
  LET ids == {m.id : m \in {x \in messages : x.room = room}}
  IN  {i \in ids : Cardinality({j \in ids : j < i}) < HistoryLimit}

\* socket.on('get_messages') up to the await of db.getMessages, whose SELECT
\* reads the messages table.
GetStart(c, room) ==
  /\ connState[c] = "open"
  /\ getH[c].pc = "idle"
  /\ ops < MaxOps
  /\ ops' = ops + 1
  /\ last' = Step("get_messages", c, sockUser[c], room)
  /\ out' = <<>>
  /\ getH' = IF sockUser[c] # NoUser /\ RoomAllows(sockUser[c], room)
               THEN [getH EXCEPT ![c] = [pc |-> "db", room |-> room, ids |-> MessagesOf(room)]]
               ELSE getH
  /\ UNCHANGED <<mem, db, authH, sendH, editH, delH, reactH, httpHs>>

\* socket.emit('message_history', { room, messages })
GetResume(c) ==
  /\ getH[c].pc = "db"
  /\ last' = Step("get_resume", c, sockUser[c], getH[c].room)
  /\ out' = <<[ToSocket(connState, c, "message_history", NoUser, getH[c].room, 0, <<>>)
                 EXCEPT !.items = getH[c].ids]>>
  /\ getH' = [getH EXCEPT ![c] = GetIdle]
  /\ UNCHANGED <<mem, db, authH, sendH, editH, delH, reactH, httpHs, ops>>

\* sends whose INSERT has not run yet
SendsPending == Cardinality({c \in Conns : sendH[c].pc = "db"})

\* if (!content && !imageData) return;
SendVerdictNoTrim(uid, room, content, image) ==
  IF uid = NoUser THEN "drop"
  ELSE IF content = <<>> /\ image = 0 THEN "drop"
  ELSE IF image > MaxImageLen THEN "error"
  ELSE IF ~RoomAllows(uid, room) THEN "drop"
  ELSE "save"

\* What send_message does before its try block (lines 118-130):
\* "drop", "error" (image too large) or "save".
SendVerdict(uid, room, content, image) ==
  IF uid = NoUser THEN "drop"
  ELSE IF Trim(content) = <<>> /\ image = 0 THEN "drop"
  ELSE IF image > MaxImageLen THEN "error"
  ELSE IF ~RoomAllows(uid, room) THEN "drop"
  ELSE "save"

\* socket.on('send_message') up to the await of db.saveMessage; the sender id
\* passed to saveMessage is socket.user.id as it is now.
SendStart(c, room, content, image) ==
  /\ connState[c] = "open"
  /\ sendH[c].pc = "idle"
  /\ ops < MaxOps
  /\ ops' = ops + 1
  /\ last' = Step("send_message", c, sockUser[c], room)
  /\ LET v == SendVerdict(sockUser[c], room, content, image)
     IN  /\ v = "save" => nextId + SendsPending <= MaxMsgs
         /\ out' = IF v = "error"
                     THEN <<ToSocket(connState, c, "error", NoUser, NoRoom, 0, <<>>)>>
                     ELSE <<>>
         /\ sendH' = IF v = "save"
                       THEN [sendH EXCEPT ![c] =
                               [pc |-> "db", sender |-> sockUser[c], room |-> room,
                                content |-> Trim(content), image |-> image, id |-> 0]]
                       ELSE sendH
  /\ UNCHANGED <<mem, db, authH, getH, editH, delH, reactH, httpHs>>

\* db.saveMessage: INSERT INTO messages ... RETURNING id, created_at
SendCommit(c) ==
  /\ sendH[c].pc = "db"
  /\ last' = Step("send_commit", c, sendH[c].sender, sendH[c].room)
  /\ out' = <<>>
  /\ messages' = messages \cup
       {[id |-> nextId, sender |-> sendH[c].sender, room |-> sendH[c].room,
         content |-> sendH[c].content, image |-> sendH[c].image, edited |-> FALSE]}
  /\ nextId' = nextId + 1
  /\ sendH' = [sendH EXCEPT ![c].pc = "saved", ![c].id = nextId]
  /\ UNCHANGED <<mem, banned, avatars, reactions, authH, getH, editH, delH, reactH, httpHs, ops>>

\* catch (err) { console.error('Send error:', err); } with a broadcast added
SendFailBroadcasts(c) ==
  /\ sendH[c].pc = "db"
  /\ last' = Step("send_failed", c, sendH[c].sender, sendH[c].room)
  /\ out' = <<ToRoom(connState, rooms, sendH[c].room, "message", sockUser[c],
                     nextId, sendH[c].content)>>
  /\ sendH' = [sendH EXCEPT ![c] = SendIdle]
  /\ UNCHANGED <<mem, db, authH, getH, editH, delH, reactH, httpHs, ops>>
\* db.saveMessage rejects (the statement or the connection to the database
\* fails): catch (err) { console.error('Send error:', err); }
SendFail(c) ==
  /\ sendH[c].pc = "db"
  /\ last' = Step("send_failed", c, sendH[c].sender, sendH[c].room)
  /\ out' = <<>>
  /\ sendH' = [sendH EXCEPT ![c] = SendIdle]
  /\ UNCHANGED <<mem, db, authH, getH, editH, delH, reactH, httpHs, ops>>

\* userSockets.get(id) || []
SocketsOf(us, u) == IF u \in Users THEN us[u] ELSE <<>>

\* for (const socketId of userSockets.get(recipientId) || [])
\*   io.sockets.sockets.get(socketId)?.join(room);
JoinRecipients(cs, rs, us, uid, room) ==
  IF StartsWithDm(room)
    THEN [x \in Conns |->
            IF x \in Range(SocketsOf(us, RecipientId(uid, room))) /\ cs[x] = "open"
              THEN rs[x] \cup {room}
              ELSE rs[x]]
    ELSE rs

\* The continuation after db.saveMessage (lines 134-155); socket.user is read
\* again here, for sender_id and for the recipient.
SendResume(c) ==
  /\ sendH[c].pc = "saved"
  /\ last' = Step("send_resume", c, sendH[c].sender, sendH[c].room)
  /\ rooms' = JoinRecipients(connState, rooms, userSockets, sockUser[c], sendH[c].room)
  /\ out' = <<ToRoom(connState, rooms', sendH[c].room, "message", sockUser[c],
                     sendH[c].id, sendH[c].content)>>
  /\ sendH' = [sendH EXCEPT ![c] = SendIdle]
  /\ UNCHANGED <<connState, sockUser, userSockets, db, authH, getH, editH, delH,
                 reactH, httpHs, ops>>

\* ------------------------------------------------------------ edit, delete
Row(id) == CHOOSE m \in messages : m.id = id
Exists(id) == \E m \in messages : m.id = id

\* socket.on('edit_message') up to the await of db.editMessage
EditStart(c, id, content) ==
  /\ connState[c] = "open"
  /\ editH[c].pc = "idle"
  /\ ops < MaxOps
  /\ ops' = ops + 1
  /\ last' = Step("edit_message", c, sockUser[c], NoRoom)
  /\ out' = <<>>
  /\ editH' = IF sockUser[c] # NoUser /\ Trim(content) # <<>>
                THEN [editH EXCEPT ![c] = [pc |-> "db", uid |-> sockUser[c], msg |-> id,
                                           content |-> Trim(content), room |-> NoRoom]]
                ELSE editH
  /\ UNCHANGED <<mem, db, authH, sendH, getH, delH, reactH, httpHs>>

\* UPDATE messages SET content = $1, edited = TRUE WHERE id = $2 RETURNING id, room
EditCommitAnySender(c) ==
  /\ editH[c].pc = "db"
  /\ last' = Step("edit_commit", c, editH[c].uid, NoRoom)
  /\ out' = <<>>
  /\ LET h == editH[c]
         hit == Exists(h.msg)
     IN  /\ messages' = IF hit
                          THEN (messages \ {Row(h.msg)}) \cup
                               {[Row(h.msg) EXCEPT !.content = h.content, !.edited = TRUE]}
                          ELSE messages
         /\ editH' = [editH EXCEPT ![c].pc = "done",
                                   ![c].room = IF hit THEN Row(h.msg).room ELSE NoRoom]
  /\ UNCHANGED <<mem, banned, avatars, nextId, reactions, authH, sendH, getH, delH, reactH,
                 httpHs, ops>>
\* db.editMessage: UPDATE messages SET content, edited = TRUE
\*   WHERE id = $2 AND sender_id = $3 RETURNING id, room
EditCommit(c) ==
  /\ editH[c].pc = "db"
  /\ last' = Step("edit_commit", c, editH[c].uid, NoRoom)
  /\ out' = <<>>
  /\ LET h == editH[c]
         hit == Exists(h.msg) /\ Row(h.msg).sender = h.uid
     IN  /\ messages' = IF hit
                          THEN (messages \ {Row(h.msg)}) \cup
                               {[Row(h.msg) EXCEPT !.content = h.content, !.edited = TRUE]}
                          ELSE messages
         /\ editH' = [editH EXCEPT ![c].pc = "done",
                                   ![c].room = IF hit THEN Row(h.msg).room ELSE NoRoom]
  /\ UNCHANGED <<mem, banned, avatars, nextId, reactions, authH, sendH, getH, delH, reactH,
                 httpHs, ops>>

\* db.editMessage rejects: catch (err) { console.error('Edit error:', err); }
EditFail(c) ==
  /\ editH[c].pc = "db"
  /\ last' = Step("edit_failed", c, editH[c].uid, NoRoom)
  /\ out' = <<>>
  /\ editH' = [editH EXCEPT ![c] = EditIdle]
  /\ UNCHANGED <<mem, db, authH, sendH, getH, delH, reactH, httpHs, ops>>

\* if (!msg) return; io.to(msg.room).emit('message_edited', { messageId, content })
EditResume(c) ==
  /\ editH[c].pc = "done"
  /\ last' = Step("edit_resume", c, editH[c].uid, editH[c].room)
  /\ out' = IF editH[c].room = NoRoom
              THEN <<>>
              ELSE <<ToRoom(connState, rooms, editH[c].room, "message_edited", NoUser,
                            editH[c].msg, editH[c].content)>>
  /\ editH' = [editH EXCEPT ![c] = EditIdle]
  /\ UNCHANGED <<mem, db, authH, sendH, getH, delH, reactH, httpHs, ops>>

\* socket.on('delete_message') up to the await of db.deleteMessage;
\* socket.user.is_admin is the flag cached at authentication.
DeleteStart(c, id) ==
  /\ connState[c] = "open"
  /\ delH[c].pc = "idle"
  /\ ops < MaxOps
  /\ ops' = ops + 1
  /\ last' = Step("delete_message", c, sockUser[c], NoRoom)
  /\ out' = <<>>
  /\ delH' = IF sockUser[c] # NoUser
               THEN [delH EXCEPT ![c] = [pc |-> "db", uid |-> sockUser[c],
                                         admin |-> IsAdmin(sockUser[c]), msg |-> id,
                                         room |-> NoRoom]]
               ELSE delH
  /\ UNCHANGED <<mem, db, authH, sendH, getH, editH, reactH, httpHs>>

\* DELETE FROM messages WHERE id = $1 RETURNING id, room, whoever asks
DeleteCommitAnySender(c) ==
  /\ delH[c].pc = "db"
  /\ last' = Step("delete_commit", c, delH[c].uid, NoRoom)
  /\ out' = <<>>
  /\ LET h == delH[c]
         hit == Exists(h.msg)
     IN  /\ messages' = IF hit THEN messages \ {Row(h.msg)} ELSE messages
         /\ reactions' = IF hit THEN {r \in reactions : r[1] # h.msg} ELSE reactions
         /\ delH' = [delH EXCEPT ![c].pc = "done",
                                 ![c].room = IF hit THEN Row(h.msg).room ELSE NoRoom]
  /\ UNCHANGED <<mem, banned, avatars, nextId, authH, sendH, getH, editH, reactH, httpHs, ops>>
\* db.deleteMessage: DELETE FROM messages WHERE id = $1 [AND sender_id = $2]
\* RETURNING id, room; the reactions of the message go with it (ON DELETE CASCADE).
DeleteCommit(c) ==
  /\ delH[c].pc = "db"
  /\ last' = Step("delete_commit", c, delH[c].uid, NoRoom)
  /\ out' = <<>>
  /\ LET h == delH[c]
         hit == Exists(h.msg) /\ (h.admin \/ Row(h.msg).sender = h.uid)
     IN  /\ messages' = IF hit THEN messages \ {Row(h.msg)} ELSE messages
         /\ reactions' = IF hit THEN {r \in reactions : r[1] # h.msg} ELSE reactions
         /\ delH' = [delH EXCEPT ![c].pc = "done",
                                 ![c].room = IF hit THEN Row(h.msg).room ELSE NoRoom]
  /\ UNCHANGED <<mem, banned, avatars, nextId, authH, sendH, getH, editH, reactH, httpHs, ops>>

\* db.deleteMessage rejects: catch (err) { console.error('Delete error:', err); }
DeleteFail(c) ==
  /\ delH[c].pc = "db"
  /\ last' = Step("delete_failed", c, delH[c].uid, NoRoom)
  /\ out' = <<>>
  /\ delH' = [delH EXCEPT ![c] = DelIdle]
  /\ UNCHANGED <<mem, db, authH, sendH, getH, editH, reactH, httpHs, ops>>

\* if (!msg) return; io.to(msg.room).emit('message_deleted', { messageId })
DeleteResume(c) ==
  /\ delH[c].pc = "done"
  /\ last' = Step("delete_resume", c, delH[c].uid, delH[c].room)
  /\ out' = IF delH[c].room = NoRoom
              THEN <<>>
              ELSE <<ToRoom(connState, rooms, delH[c].room, "message_deleted", NoUser,
                            delH[c].msg, <<>>)>>
  /\ delH' = [delH EXCEPT ![c] = DelIdle]
  /\ UNCHANGED <<mem, db, authH, sendH, getH, editH, reactH, httpHs, ops>>

\* --------------------------------------------------------------- reactions
Emojis == {1}

\* formatReactions(grouped[messageId] || []) of getReactionsForMessage: the
\* rows of message m grouped by emoji, each with the ids of its users.
FormatReactions(rs, m) ==
  {<<e, {r[2] : r \in {x \in rs : x[1] = m /\ x[3] = e}}>> :
     e \in {r[3] : r \in {x \in rs : x[1] = m}}}

\* The emoji column is a string of at most 10 characters.  "a" and "b" stand
\* for two emoji; "toString" is a string that names a property every object
\* inherits from Object.prototype.
EmojiKeys == {"a", "b", "toString"}
InheritedKeys == {"toString"}

\* the rows a reactions table can hold for message 1: (message_id, user_id, emoji)
ReactionRows == {<<1, u, e>> : u \in {1, 2}, e \in EmojiKeys}

\* The loop of formatReactions over the rows left, byEmoji being the entries
\* made so far in the order of their creation (the order of Object.values).
\* byEmoji = {} is a plain object: byEmoji[emoji] of a key it does not own is
\* the inherited property when there is one, which is truthy, so no entry is
\* made, count++ lands on the inherited object and userIds.push(...) throws a
\* TypeError because userIds is undefined.
RECURSIVE FormatLoop(_, _)
FormatLoop(raw, byEmoji) ==
  IF raw = <<>> THEN [threw |-> FALSE, view |-> byEmoji]
  ELSE LET emoji == Head(raw)[3]
           user_id == Head(raw)[2]
           own == {i \in 1..Len(byEmoji) : byEmoji[i].emoji = emoji}
       IN  IF own = {} /\ emoji \in InheritedKeys
             THEN [threw |-> TRUE, view |-> <<>>]
             ELSE LET made == IF own = {}
                                THEN Append(byEmoji,
                                            [emoji |-> emoji, count |-> 0, userIds |-> <<>>])
                                ELSE byEmoji
                      i == CHOOSE k \in 1..Len(made) : made[k].emoji = emoji
                  IN  FormatLoop(Tail(raw),
                                 [made EXCEPT ![i].count = @ + 1,
                                              ![i].userIds = Append(@, user_id)])

\* formatReactions(rawReactions)
FormatRawReactions(rawReactions) == FormatLoop(rawReactions, <<>>)

\* The rows of message m as a SELECT without ORDER BY can return them.
RawReactions(m) ==
  LET rows == {r \in reactions : r[1] = m}
  IN  {raw \in [1..Cardinality(rows) -> rows] :
         \A i, j \in 1..Cardinality(rows) : raw[i] = raw[j] => i = j}

\* db.getReactionsForMessage(messageId): getReactionsForMessages([messageId])
\* and formatReactions(grouped[messageId] || [])
GetReactionsForMessage(m) ==
  /\ ops < MaxOps
  /\ ops' = ops + 1
  /\ \E raw \in RawReactions(m) :
       last' = [op |-> "get_reactions", conn |-> 0, user |-> NoUser, room |-> NoRoom,
                msg |-> m, raw |-> raw, result |-> FormatRawReactions(raw)]
  /\ out' = <<>>
  /\ UNCHANGED <<mem, db, sockHs, httpHs>>

\* socket.on('toggle_reaction') up to the first await of db.toggleReaction
ToggleStart(c, id, emoji) ==
  /\ connState[c] = "open"
  /\ reactH[c].pc = "idle"
  /\ ops < MaxOps
  /\ ops' = ops + 1
  /\ last' = StepOn("toggle_reaction", c, sockUser[c], id)
  /\ out' = <<>>
  /\ reactH' = IF sockUser[c] # NoUser
                 THEN [reactH EXCEPT ![c] = [pc |-> "del", uid |-> sockUser[c],
                                             msg |-> id, emoji |-> emoji]]
                 ELSE reactH
  /\ UNCHANGED <<mem, db, authH, sendH, getH, editH, delH, httpHs>>

\* db.toggleReaction's first statement,
\*   DELETE FROM reactions WHERE ... RETURNING id
\* names a column the reactions table (message_id, user_id, emoji) does not
\* have: the statement is rejected, nothing is deleted, toggleReaction throws
\* and the handler's catch logs the error.
ToggleDeleteAccepted(c) ==
  /\ reactH[c].pc = "del"
  /\ last' = StepOn("toggle_done", c, reactH[c].uid, reactH[c].msg)
  /\ LET t == <<reactH[c].msg, reactH[c].uid, reactH[c].emoji>>
     IN  IF Exists(t[1])
           THEN /\ reactions' = IF t \in reactions THEN reactions \ {t}
                                                  ELSE reactions \cup {t}
                /\ out' = <<[ToRoom(connState, rooms, Row(t[1]).room, "reaction_updated",
                                    NoUser, t[1], <<>>)
                               EXCEPT !.items = FormatReactions(reactions', t[1])]>>
           ELSE /\ reactions' = reactions
                /\ out' = <<>>
  /\ reactH' = [reactH EXCEPT ![c] = ReactIdle]
  /\ UNCHANGED <<mem, banned, avatars, messages, nextId, authH, sendH, getH, editH, delH,
                 httpHs, ops>>
ToggleDelete(c) ==
  /\ reactH[c].pc = "del"
  /\ last' = StepOn("toggle_failed", c, reactH[c].uid, reactH[c].msg)
  /\ out' = <<>>
  /\ reactH' = [reactH EXCEPT ![c] = ReactIdle]
  /\ UNCHANGED <<mem, db, authH, sendH, getH, editH, delH, httpHs, ops>>

\* ------------------------------------------------------------- http routes
Http(status, u) == Emit("http", {}, u, NoRoom, status, <<>>)

\* POST /api/login: getUserByUsername, the is_banned check, bcrypt.compare
Login(u, pwOk) ==
  /\ ops < MaxOps
  /\ ops' = ops + 1
  /\ last' = Step("login", 0, u, NoRoom)
  /\ out' = <<Http(IF banned[u] THEN 403 ELSE IF pwOk THEN 200 ELSE 401, u)>>
  /\ UNCHANGED <<mem, db, sockHs, httpHs>>

\* POST /api/admin/ban/:userId up to the await of db.setBanned: requireAuth,
\* requireAdmin, the self-ban check and the read of the target (404 when it
\* has no row).  r is the user of the bearer token (NoUser: no valid token).
BanStartNoSelfCheck(r, t) ==
  /\ banH.pc = "idle"
  /\ ops < MaxOps
  /\ ops' = ops + 1
  /\ last' = Step("ban", 0, t, NoRoom)
  /\ IF r = NoUser THEN out' = <<Http(401, r)>> /\ UNCHANGED banH
     ELSE IF ~IsAdmin(r) THEN out' = <<Http(403, r)>> /\ UNCHANGED banH
     ELSE IF t \notin Users THEN out' = <<Http(404, r)>> /\ UNCHANGED banH
     ELSE /\ out' = <<>>
          /\ banH' = [pc |-> "read", target |-> t, newBanned |-> ~banned[t]]
  /\ UNCHANGED <<mem, db, sockHs, clearH, avatarH>>
BanStart(r, t) ==
  /\ banH.pc = "idle"
  /\ ops < MaxOps
  /\ ops' = ops + 1
  /\ last' = Step("ban", 0, t, NoRoom)
  /\ IF r = NoUser THEN out' = <<Http(401, r)>> /\ UNCHANGED banH
     ELSE IF ~IsAdmin(r) THEN out' = <<Http(403, r)>> /\ UNCHANGED banH
     ELSE IF t = r THEN out' = <<Http(400, r)>> /\ UNCHANGED banH
     ELSE IF t \notin Users THEN out' = <<Http(404, r)>> /\ UNCHANGED banH
     ELSE /\ out' = <<>>
          /\ banH' = [pc |-> "read", target |-> t, newBanned |-> ~banned[t]]
  /\ UNCHANGED <<mem, db, sockHs, clearH, avatarH>>

\* db.setBanned: UPDATE users SET is_banned = $1 WHERE id = $2
BanCommit ==
  /\ banH.pc = "read"
  /\ last' = Step("ban_commit", 0, banH.target, NoRoom)
  /\ out' = <<>>
  /\ banned' = [banned EXCEPT ![banH.target] = banH.newBanned]
  /\ banH' = [banH EXCEPT !.pc = "set"]
  /\ UNCHANGED <<mem, avatars, messages, nextId, reactions, sockHs, clearH, avatarH, ops>>

\* const s = io.sockets.sockets.get(socketId);
\* if (s) { s.emit('banned'); s.disconnect(); }
KickOneNoDisconnect(st, c, t) ==
  IF st.cs[c] = "open"
    THEN [st EXCEPT !.out = Append(@, ToSocket(st.cs, c, "banned", t, NoRoom, 0, <<>>))]
    ELSE st
KickOne(st, c, t) ==
  IF st.cs[c] = "open"
    THEN CloseSocket([st EXCEPT !.out = @ \o
                        <<ToSocket(st.cs, c, "banned", t, NoRoom, 0, <<>>),
                          ToSocket(st.cs, c, "disconnect", t, NoRoom, 0, <<>>)>>], c)
    ELSE st

\* for (const socketId of userSockets.get(targetId) || []) ...
RECURSIVE KickAll(_, _, _)
KickAll(st, ids, t) ==
  IF ids = <<>> THEN st ELSE KickAll(KickOne(st, Head(ids), t), Tail(ids), t)

\* the continuation after db.setBanned without the test of newBanned
BanKickAlways ==
  /\ banH.pc = "set"
  /\ last' = Step("ban_kick", 0, banH.target, NoRoom)
  /\ LET st == KickAll(Here, userSockets[banH.target], banH.target)
     IN  /\ connState' = st.cs
         /\ rooms' = st.rs
         /\ userSockets' = st.us
         /\ out' = st.out
  /\ banH' = [banH EXCEPT !.pc = "roster"]
  /\ UNCHANGED <<sockUser, db, sockHs, clearH, avatarH, ops>>
\* The continuation after db.setBanned, up to the await of db.getAllUsers.
BanKick ==
  /\ banH.pc = "set"
  /\ last' = Step("ban_kick", 0, banH.target, NoRoom)
  /\ LET st == IF banH.newBanned
                 THEN KickAll(Here, userSockets[banH.target], banH.target)
                 ELSE Here
     IN  /\ connState' = st.cs
         /\ rooms' = st.rs
         /\ userSockets' = st.us
         /\ out' = st.out
  /\ banH' = [banH EXCEPT !.pc = "roster"]
  /\ UNCHANGED <<sockUser, db, sockHs, clearH, avatarH, ops>>

\* io.emit('users_list', await db.getAllUsers()); res.json({ success: true, ... })
BanRoster ==
  /\ banH.pc = "roster"
  /\ last' = Step("ban_done", 0, banH.target, NoRoom)
  /\ out' = <<[ToAll(connState, "users_list", NoUser, NoRoom, 0, <<>>)
                 EXCEPT !.items = Roster],
              Http(200, banH.target)>>
  /\ banH' = BanIdle
  /\ UNCHANGED <<mem, db, sockHs, clearH, avatarH, ops>>

\* PUT /api/avatar up to the await of db.updateUserAvatar: requireAuth, the
\* colour test and the image bound.  r is the user of the bearer token.  The
\* emoji is stored and broadcast as it comes and is left out.
AvatarStart(r, color, image) ==
  /\ avatarH.pc = "idle"
  /\ ops < MaxOps
  /\ ops' = ops + 1
  /\ last' = Step("avatar", 0, r, NoRoom)
  /\ IF r = NoUser THEN out' = <<Http(401, r)>> /\ UNCHANGED avatarH
     ELSE IF ~ValidColor(color) THEN out' = <<Http(400, r)>> /\ UNCHANGED avatarH
     ELSE IF image > MaxAvatarLen THEN out' = <<Http(400, r)>> /\ UNCHANGED avatarH
     ELSE /\ out' = <<>>
          /\ avatarH' = [pc |-> "db", uid |-> r, color |-> color, image |-> image]
  /\ UNCHANGED <<mem, db, sockHs, banH, clearH>>

\* db.updateUserAvatar: UPDATE users SET avatar_color, avatar_emoji, avatar_image
AvatarCommit ==
  /\ avatarH.pc = "db"
  /\ last' = Step("avatar_commit", 0, avatarH.uid, NoRoom)
  /\ out' = <<>>
  /\ avatars' = [avatars EXCEPT ![avatarH.uid] =
                   [color |-> avatarH.color, image |-> avatarH.image]]
  /\ avatarH' = [avatarH EXCEPT !.pc = "done"]
  /\ UNCHANGED <<mem, banned, messages, nextId, reactions, sockHs, banH, clearH, ops>>

\* db.updateUserAvatar rejects: catch (err) { ...; res.status(500) }
AvatarFail ==
  /\ avatarH.pc = "db"
  /\ last' = Step("avatar_failed", 0, avatarH.uid, NoRoom)
  /\ out' = <<Http(500, avatarH.uid)>>
  /\ avatarH' = AvatarIdle
  /\ UNCHANGED <<mem, db, sockHs, banH, clearH, ops>>

\* io.emit('avatar_updated', { id, avatar_color, ... }); res.json({ success: true })
AvatarResume ==
  /\ avatarH.pc = "done"
  /\ last' = Step("avatar_done", 0, avatarH.uid, NoRoom)
  /\ out' = <<ToAll(connState, "avatar_updated", avatarH.uid, NoRoom, avatarH.image,
                    avatarH.color),
              Http(200, avatarH.uid)>>
  /\ avatarH' = AvatarIdle
  /\ UNCHANGED <<mem, db, sockHs, banH, clearH, ops>>

\* DELETE /api/admin/clear/:room up to the await of db.clearRoom
ClearStart(r, room) ==
  /\ clearH.pc = "idle"
  /\ ops < MaxOps
  /\ ops' = ops + 1
  /\ last' = Step("clear", 0, r, room)
  /\ IF r = NoUser THEN out' = <<Http(401, r)>> /\ UNCHANGED clearH
     ELSE IF ~IsAdmin(r) THEN out' = <<Http(403, r)>> /\ UNCHANGED clearH
     ELSE /\ out' = <<>>
          /\ clearH' = [pc |-> "db", room |-> room]
  /\ UNCHANGED <<mem, db, sockHs, banH, avatarH>>

\* DELETE FROM messages (reactions cascade)
ClearCommitAll ==
  /\ clearH.pc = "db"
  /\ last' = Step("clear_commit", 0, NoUser, clearH.room)
  /\ out' = <<>>
  /\ messages' = {}
  /\ reactions' = {}
  /\ clearH' = [clearH EXCEPT !.pc = "done"]
  /\ UNCHANGED <<mem, banned, avatars, nextId, sockHs, banH, avatarH, ops>>
\* db.clearRoom: DELETE FROM messages WHERE room = $1 (reactions cascade)
ClearCommit ==
  /\ clearH.pc = "db"
  /\ last' = Step("clear_commit", 0, NoUser, clearH.room)
  /\ out' = <<>>
  /\ messages' = {m \in messages : m.room # clearH.room}
  /\ reactions' = {r \in reactions : r[1] \in {m.id : m \in messages'}}
  /\ clearH' = [clearH EXCEPT !.pc = "done"]
  /\ UNCHANGED <<mem, banned, avatars, nextId, sockHs, banH, avatarH, ops>>

\* io.to(room).emit('room_cleared', { room }); res.json({ success: true })
ClearResume ==
  /\ clearH.pc = "done"
  /\ last' = Step("clear_done", 0, NoUser, clearH.room)
  /\ out' = <<ToRoom(connState, rooms, clearH.room, "room_cleared", NoUser, 0, <<>>),
              Http(200, NoUser)>>
  /\ clearH' = ClearIdle
  /\ UNCHANGED <<mem, db, sockHs, banH, avatarH, ops>>

\* ----------------------------------------------------------- specifications
\* Connections, authentication and moderation.
NextPresence ==
  \/ \E c \in Conns : Connect(c)
  \/ \E c \in Conns : Disconnect(c)
  \/ \E c \in Conns, tok \in Tokens : AuthStart(c, tok)
  \/ \E c \in Conns : AuthResume(c)
  \/ \E c \in Conns : AuthRoster(c)
  \/ \E u \in Users, pwOk \in BOOLEAN : Login(u, pwOk)
  \/ \E r \in Users \cup {NoUser}, t \in Users : BanStart(r, t)
  \/ BanCommit
  \/ BanKick
  \/ BanRoster

SpecPresence == Init /\ [][NextPresence]_vars

\* Moderation against sends in flight.
NextBan ==
  \/ NextPresence
  \/ \E c \in Conns, content \in Contents, image \in ImageLens :
        SendStart(c, General, content, image)
  \/ \E c \in Conns : SendCommit(c)
  \/ \E c \in Conns : SendResume(c)

SpecBan == Init /\ [][NextBan]_vars

\* Rooms: subscription, history and sending.
NextRooms ==
  \/ \E c \in Conns : Connect(c)
  \/ \E c \in Conns : Disconnect(c)
  \/ \E c \in Conns, tok \in Tokens : AuthStart(c, tok)
  \/ \E c \in Conns : AuthResume(c)
  \/ \E c \in Conns : AuthRoster(c)
  \/ \E c \in Conns, room \in DmRooms : JoinRoom(c, room)
  \/ \E c \in Conns, room \in DmRooms : GetStart(c, room)
  \/ \E c \in Conns : GetResume(c)
  \/ \E c \in Conns, room \in DmRooms, content \in Contents, image \in ImageLens :
        SendStart(c, room, content, image)
  \/ \E c \in Conns : SendCommit(c)
  \/ \E c \in Conns : SendResume(c)

SpecRooms == Init /\ [][NextRooms]_vars

\* The six room-scoped events of a socket.
\* The tokens of the author of a message and of the admin.
EventTokens == {1, NumUsers}

NextEvents ==
  \/ \E c \in Conns : Connect(c)
  \/ \E c \in Conns : Disconnect(c)
  \/ \E c \in Conns, tok \in EventTokens : AuthStart(c, tok)
  \/ \E c \in Conns : AuthResume(c)
  \/ \E c \in Conns : AuthRoster(c)
  \/ \E c \in Conns, room \in DmRooms : JoinRoom(c, room)
  \/ \E c \in Conns, room \in DmRooms : GetStart(c, room)
  \/ \E c \in Conns : GetResume(c)
  \/ \E c \in Conns, room \in DmRooms, content \in Contents, image \in ImageLens :
        SendStart(c, room, content, image)
  \/ \E c \in Conns : SendCommit(c)
  \/ \E c \in Conns : SendResume(c)
  \/ \E c \in Conns, id \in 1..MaxMsgs, content \in Contents : EditStart(c, id, content)
  \/ \E c \in Conns : EditCommit(c)
  \/ \E c \in Conns : EditResume(c)
  \/ \E c \in Conns, id \in 1..MaxMsgs : DeleteStart(c, id)
  \/ \E c \in Conns : DeleteCommit(c)
  \/ \E c \in Conns : DeleteResume(c)
  \/ \E c \in Conns, id \in 1..MaxMsgs, emoji \in Emojis : ToggleStart(c, id, emoji)
  \/ \E c \in Conns : ToggleDelete(c)

SpecEvents == Init /\ [][NextEvents]_vars

\* Every operation.
Next ==
  \/ NextEvents
  \/ \E c \in Conns, room \in RoomInputs : JoinRoom(c, room)
  \/ \E c \in Conns, room \in RoomInputs : GetStart(c, room)
  \/ \E c \in Conns, room \in RoomInputs, content \in Contents, image \in ImageLens :
        SendStart(c, room, content, image)
  \/ \E u \in Users, pwOk \in BOOLEAN : Login(u, pwOk)
  \/ \E r \in Users \cup {NoUser}, t \in Users : BanStart(r, t)
  \/ BanCommit
  \/ BanKick
  \/ BanRoster
  \/ \E r \in Users \cup {NoUser}, room \in RoomInputs : ClearStart(r, room)
  \/ ClearCommit
  \/ ClearResume
  \/ \E c \in Conns : AuthStart(c, UnknownUser)
  \/ \E r \in Users \cup {NoUser}, color \in Colors, image \in AvatarLens :
        AvatarStart(r, color, image)
  \/ AvatarCommit
  \/ AvatarFail
  \/ AvatarResume
  \/ \E c \in Conns, other \in Users : OpenDm(c, other)
  \/ \E c \in Conns : SendFail(c)
  \/ \E c \in Conns : EditFail(c)
  \/ \E c \in Conns : DeleteFail(c)
  \/ \E c \in Conns, id \in 1..MaxMsgs, content \in Edits : EditStart(c, id, content)
  \/ \E c \in Conns : AuthRosterFail(c)

Spec == Init /\ [][Next]_vars

\* The direct-message walk-through: identities authenticate, exchange, edit and
\* delete messages of dm:1:2 and fetch its history; no explicit join_room.
NextScenario ==
  \/ \E c \in Conns : Connect(c)
  \/ \E c \in Conns, tok \in Users : AuthStart(c, tok)
  \/ \E c \in Conns : AuthResume(c)
  \/ \E c \in Conns : AuthRoster(c)
  \/ \E c \in Conns : SendStart(c, Dm(1, 2), <<"h">>, 0)
  \/ \E c \in Conns : SendCommit(c)
  \/ \E c \in Conns : SendResume(c)
  \/ \E c \in Conns, id \in 1..MaxMsgs : EditStart(c, id, <<" ", "e">>)
  \/ \E c \in Conns : EditCommit(c)
  \/ \E c \in Conns : EditResume(c)
  \/ \E c \in Conns, id \in 1..MaxMsgs : DeleteStart(c, id)
  \/ \E c \in Conns : DeleteCommit(c)
  \/ \E c \in Conns : DeleteResume(c)
  \/ \E c \in Conns : GetStart(c, Dm(1, 2))
  \/ \E c \in Conns : GetResume(c)

SpecScenario == Init /\ [][NextScenario]_vars

\* Sending: every payload into every room, by parties and outsiders.
NextSend ==
  \/ \E c \in Conns : Connect(c)
  \/ \E c \in Conns : Disconnect(c)
  \/ \E c \in Conns, tok \in EventTokens : AuthStart(c, tok)
  \/ \E c \in Conns : AuthResume(c)
  \/ \E c \in Conns : AuthRoster(c)
  \/ \E c \in Conns, room \in DmRooms, content \in Contents, image \in ImageLens :
        SendStart(c, room, content, image)
  \/ \E c \in Conns : SendCommit(c)
  \/ \E c \in Conns : SendResume(c)

SpecSend == Init /\ [][NextSend]_vars

\* Mutations whose persistence call may reject.
NextFailures ==
  \/ \E c \in Conns : Connect(c)
  \/ \E c \in Conns, tok \in EventTokens : AuthStart(c, tok)
  \/ \E c \in Conns : AuthResume(c)
  \/ \E c \in Conns : AuthRoster(c)
  \/ \E c \in Conns, room \in DmRooms : SendStart(c, room, <<"h">>, 0)
  \/ \E c \in Conns : SendCommit(c)
  \/ \E c \in Conns : SendFail(c)
  \/ \E c \in Conns : SendResume(c)
  \/ \E c \in Conns, id \in 1..MaxMsgs : EditStart(c, id, <<" ", "e">>)
  \/ \E c \in Conns : EditCommit(c)
  \/ \E c \in Conns : EditFail(c)
  \/ \E c \in Conns : EditResume(c)
  \/ \E c \in Conns, id \in 1..MaxMsgs : DeleteStart(c, id)
  \/ \E c \in Conns : DeleteCommit(c)
  \/ \E c \in Conns : DeleteFail(c)
  \/ \E c \in Conns : DeleteResume(c)
  \/ \E c \in Conns, id \in 1..MaxMsgs, emoji \in Emojis : ToggleStart(c, id, emoji)
  \/ \E c \in Conns : ToggleDelete(c)

SpecFailures == Init /\ [][NextFailures]_vars

\* Editing and deleting messages, by their author and by the admin.
NextEdits ==
  \/ \E c \in Conns : Connect(c)
  \/ \E c \in Conns : Disconnect(c)
  \/ \E c \in Conns, tok \in EventTokens : AuthStart(c, tok)
  \/ \E c \in Conns : AuthResume(c)
  \/ \E c \in Conns : AuthRoster(c)
  \/ \E c \in Conns, room \in DmRooms : SendStart(c, room, <<"h">>, 0)
  \/ \E c \in Conns : SendCommit(c)
  \/ \E c \in Conns : SendResume(c)
  \/ \E c \in Conns, id \in 1..MaxMsgs, content \in Edits : EditStart(c, id, content)
  \/ \E c \in Conns : EditCommit(c)
  \/ \E c \in Conns : EditResume(c)
  \/ \E c \in Conns, id \in 1..MaxMsgs : DeleteStart(c, id)
  \/ \E c \in Conns : DeleteCommit(c)
  \/ \E c \in Conns : DeleteResume(c)

SpecEdits == Init /\ [][NextEdits]_vars

\* Authentication with every kind of credential.
NextAuth ==
  \/ \E c \in Conns : Connect(c)
  \/ \E c \in Conns : Disconnect(c)
  \/ \E c \in Conns, tok \in AuthTokens : AuthStart(c, tok)
  \/ \E c \in Conns : AuthResume(c)
  \/ \E c \in Conns : AuthRoster(c)
  \/ \E c \in Conns, room \in DmRooms : JoinRoom(c, room)

SpecAuth == Init /\ [][NextAuth]_vars

\* Clients opening direct-message rooms with each other.
NextKeys ==
  \/ \E c \in Conns : Connect(c)
  \/ \E c \in Conns, tok \in Users : AuthStart(c, tok)
  \/ \E c \in Conns : AuthResume(c)
  \/ \E c \in Conns : AuthRoster(c)
  \/ \E c \in Conns, other \in Users : OpenDm(c, other)
  \/ \E c \in Conns : GetResume(c)
  \/ \E c \in Conns : SendStart(c, Dm(1, 2), <<"h">>, 0)
  \/ \E c \in Conns : SendCommit(c)
  \/ \E c \in Conns : SendResume(c)

SpecKeys == Init /\ [][NextKeys]_vars

\* Moderation over http: ban and clear-room requests, by everybody.
Requesters == {NoUser, 1, NumUsers}

NextAdmin ==
  \/ \E c \in Conns : Connect(c)
  \/ \E c \in Conns, tok \in EventTokens : AuthStart(c, tok)
  \/ \E c \in Conns : AuthResume(c)
  \/ \E c \in Conns : AuthRoster(c)
  \/ \E c \in Conns, room \in DmRooms : SendStart(c, room, <<"h">>, 0)
  \/ \E c \in Conns : SendCommit(c)
  \/ \E c \in Conns : SendResume(c)
  \/ \E c \in Conns, room \in DmRooms : GetStart(c, room)
  \/ \E c \in Conns : GetResume(c)
  \/ \E r \in Requesters, t \in Users \cup {UnknownUser} : BanStart(r, t)
  \/ BanCommit
  \/ BanKick
  \/ BanRoster
  \/ \E r \in Requesters, room \in DmRooms : ClearStart(r, room)
  \/ ClearCommit
  \/ ClearResume

SpecAdmin == Init /\ [][NextAdmin]_vars

\* Requests that validation refuses: message payloads and avatars.
NextValidation ==
  \/ \E c \in Conns : Connect(c)
  \/ \E c \in Conns : AuthStart(c, 1)
  \/ \E c \in Conns : AuthResume(c)
  \/ \E c \in Conns : AuthRoster(c)
  \/ \E c \in Conns, content \in Contents, image \in ImageLens :
        SendStart(c, General, content, image)
  \/ \E c \in Conns : SendCommit(c)
  \/ \E c \in Conns : SendResume(c)
  \/ \E r \in {NoUser, 1}, color \in Colors, image \in AvatarLens :
        AvatarStart(r, color, image)
  \/ AvatarCommit
  \/ AvatarFail
  \/ AvatarResume

SpecValidation == Init /\ [][NextValidation]_vars

\* Authentication whose reads of the users table can fail.
NextAuthFailures ==
  \/ \E c \in Conns : Connect(c)
  \/ \E c \in Conns : Disconnect(c)
  \/ \E c \in Conns, tok \in AuthTokens : AuthStart(c, tok)
  \/ \E c \in Conns : AuthResume(c)
  \/ \E c \in Conns : AuthRoster(c)
  \/ \E c \in Conns : AuthRosterFail(c)

SpecAuthFailures == Init /\ [][NextAuthFailures]_vars

\* The room keys of send_message payloads: 'general', 'dm:1:2', the same pair
\* the other way round, and the pair with a further segment.
SentKeys == {GeneralKey,
             <<"d", "m", ":", "1", ":", "2">>,
             <<"d", "m", ":", "2", ":", "1">>,
             <<"d", "m", ":", "1", ":", "2", ":", "9">>}

\* Sends under room keys as clients can write them.
NextPartition ==
  \/ \E c \in Conns : Connect(c)
  \/ \E c \in Conns, tok \in Users : AuthStart(c, tok)
  \/ \E c \in Conns : AuthResume(c)
  \/ \E c \in Conns : AuthRoster(c)
  \/ \E c \in Conns, key \in SentKeys : SendStart(c, RoomOf(key), <<"h">>, 0)
  \/ \E c \in Conns : SendCommit(c)
  \/ \E c \in Conns : SendResume(c)

SpecPartition == Init /\ [][NextPartition]_vars

\* One room filling up while its history is fetched.
NextHistory ==
  \/ \E c \in Conns : Connect(c)
  \/ \E c \in Conns : AuthStart(c, 1)
  \/ \E c \in Conns : AuthResume(c)
  \/ \E c \in Conns : AuthRoster(c)
  \/ \E c \in Conns : SendStart(c, General, <<"h">>, 0)
  \/ \E c \in Conns : SendCommit(c)
  \/ \E c \in Conns : SendResume(c)
  \/ \E c \in Conns : GetStart(c, General)
  \/ \E c \in Conns : GetResume(c)

SpecHistory == Init /\ [][NextHistory]_vars

\* Joining rooms by request and by an incoming direct message.
NextJoin ==
  \/ \E c \in Conns : Connect(c)
  \/ \E c \in Conns, tok \in {1, 2} : AuthStart(c, tok)
  \/ \E c \in Conns : AuthResume(c)
  \/ \E c \in Conns : AuthRoster(c)
  \/ \E c \in Conns, room \in DmRooms : JoinRoom(c, room)
  \/ \E c \in Conns, room \in DmRooms : SendStart(c, room, <<"h">>, 0)
  \/ \E c \in Conns : SendCommit(c)
  \/ \E c \in Conns : SendResume(c)

SpecJoin == Init /\ [][NextJoin]_vars

\* The grouped view read from a reactions table that holds rows: message 1
\* exists and up to MaxRows reactions to it are stored.
MaxRows == 3

InitReactions ==
  /\ connState = [c \in Conns |-> "new"]
  /\ sockUser = [c \in Conns |-> NoUser]
  /\ rooms = [c \in Conns |-> {}]
  /\ userSockets = [u \in Users |-> <<>>]
  /\ banned = [u \in Users |-> FALSE]
  /\ avatars = [u \in Users |-> [color |-> DefaultColor, image |-> 0]]
  /\ messages = {[id |-> 1, sender |-> 1, room |-> General, content |-> <<"h">>,
                  image |-> 0, edited |-> FALSE]}
  /\ nextId = 2
  /\ reactions \in {rs \in SUBSET ReactionRows : Cardinality(rs) <= MaxRows}
  /\ authH = [c \in Conns |-> AuthIdle]
  /\ sendH = [c \in Conns |-> SendIdle]
  /\ getH = [c \in Conns |-> GetIdle]
  /\ editH = [c \in Conns |-> EditIdle]
  /\ delH = [c \in Conns |-> DelIdle]
  /\ reactH = [c \in Conns |-> ReactIdle]
  /\ banH = BanIdle
  /\ clearH = ClearIdle
  /\ avatarH = AvatarIdle
  /\ ops = 0
  /\ last = Step("init", 0, NoUser, NoRoom)
  /\ out = <<>>

NextReactions ==
  \/ GetReactionsForMessage(1)

SpecReactions == InitReactions /\ [][NextReactions]_vars

\* ------------------------------------------------------------------ claims
\* How many emits of the step just taken were ev events about user u.
Emitted(o, ev, u) == Cardinality({i \in 1..Len(o) : o[i].ev = ev /\ o[i].user = u})

\* Socket c got event ev in the step just taken.
Got(o, c, ev) == \E i \in 1..Len(o) : o[i].ev = ev /\ c \in o[i].to

\* No open socket is registered under an identity other than the one bound to it.
OneIdentityEach ==
  \A c \in Conns, u \in Users :
    (connState[c] = "open" /\ c \in Range(userSockets[u])) => sockUser[c] = u

\* C1: whenever connections bound to identity u close (none having been
\* authenticated under two identities), user_offline for u is broadcast exactly
\* once if no open connection of u is left, and not at all otherwise.
C1_OfflineOnceOnLastClose ==
  [][OneIdentityEach =>
       \A u \in Users :
         LET closing == {c \in Conns : /\ connState[c] = "open"
                                       /\ connState'[c] = "closed"
                                       /\ sockUser[c] = u}
             left    == {c \in Conns : connState'[c] = "open" /\ sockUser'[c] = u}
         IN  Emitted(out', "user_offline", u) =
               IF closing # {} /\ left = {} THEN 1 ELSE 0]_vars

\* C2: user_online for u is broadcast exactly when u's entry of the presence
\* table goes from empty to non-empty, and then once.
C2_OnlineOncePerEdge ==
  [][\A u \in Users :
       Emitted(out', "user_online", u) =
         IF userSockets[u] = <<>> /\ userSockets'[u] # <<>> THEN 1 ELSE 0]_vars

\* C6: the presence table has an entry for u iff an open connection is bound
\* to u, and every socket id stored under u is an open connection bound to u.
C6_PresenceTableExact ==
  \A u \in Users :
    /\ userSockets[u] # <<>> <=>
         \E c \in Conns : connState[c] = "open" /\ sockUser[c] = u
    /\ \A c \in Range(userSockets[u]) : connState[c] = "open" /\ sockUser[c] = u

\* socket c got ev1 and, later in the same step, ev2
GotInOrder(o, c, ev1, ev2) ==
  \E i, j \in 1..Len(o) :
    /\ i < j
    /\ o[i].ev = ev1 /\ c \in o[i].to
    /\ o[j].ev = ev2 /\ c \in o[j].to

\* C7: the ban of an identity sends banned and then the disconnect to each of
\* its open connections and closes them, all in the step after the flag is
\* committed; an authenticate or a login of a banned identity is rejected and
\* registers nothing.
C7_BanKicksEveryConnection ==
  [][/\ (last'.op = "ban_kick" /\ banH.newBanned) =>
          \A c \in Conns :
            (connState[c] = "open" /\
               (c \in Range(userSockets[banH.target]) \/ sockUser[c] = banH.target))
            => /\ connState'[c] = "closed"
               /\ GotInOrder(out', c, "banned", "disconnect")
     /\ (last'.op = "authenticate" /\ last'.user \in Users /\ banned[last'.user]) =>
          /\ authH'[last'.conn].pc = "db"
          /\ authH'[last'.conn].isBanned
          /\ UNCHANGED <<mem, db>>
     /\ \A c \in Conns :
          (last'.op = "auth_resume" /\ last'.conn = c /\ authH[c].isBanned) =>
            /\ out' = <<ToSocket(connState, c, "banned", authH[c].uid, NoRoom, 0, <<>>)>>
            /\ authH'[c].pc = "idle"
            /\ UNCHANGED <<mem, db>>
     /\ (last'.op = "login" /\ banned[last'.user]) =>
          /\ out' = <<Http(403, last'.user)>>
          /\ UNCHANGED <<mem, db>>]_vars

\* Two connections of one identity were just banned and disconnected.
C7_Witness ==
  /\ last.op = "ban_kick"
  /\ banned[last.user]
  /\ \E c1, c2 \in Conns :
       /\ c1 # c2
       /\ sockUser[c1] = last.user /\ sockUser[c2] = last.user
       /\ GotInOrder(out, c1, "banned", "disconnect")
       /\ GotInOrder(out, c2, "banned", "disconnect")

\* The handler of the ban that set u's flag has sent its response.
BanFinished(u) ==
  banned[u] /\ ~(banH.pc \in {"set", "roster"} /\ banH.target = u)

\* C8: once the ban of u is finished, no open connection is bound to u, and no
\* step persists or broadcasts a message of u.
C8_NothingAfterBan ==
  \A u \in Users :
    BanFinished(u) =>
      /\ \A c \in Conns : connState[c] = "open" => sockUser[c] # u
      /\ ~(last.op \in {"send_commit", "send_resume"} /\ last.user = u)

\* The party of direct-message room `room` that is not a.
OtherParty(a, room) == IF a = room.id1 THEN room.id2 ELSE room.id1

\* C3: when the message of a send by a into a direct-message room is
\* broadcast, every open connection registered for the other party is
\* subscribed to the room and gets the message event.
C3_RecipientSubscribedBeforeBroadcast ==
  [][(last'.op = "send_resume" /\ StartsWithDm(last'.room)) =>
       \A x \in Conns :
         (/\ connState[x] = "open"
          /\ x \in Range(SocketsOf(userSockets, OtherParty(last'.user, last'.room))))
         => /\ last'.room \in rooms'[x]
            /\ Got(out', x, "message")]_vars

\* C4: a get_messages or send_message on a direct-message room by a connection
\* bound to neither of its two ids emits nothing, persists nothing and leaves
\* no handler running.
C4_OutsiderDroppedSilently ==
  [][(/\ last'.op \in {"get_messages", "send_message"}
      /\ StartsWithDm(last'.room)
      /\ sockUser[last'.conn] \notin {NoUser, last'.room.id1, last'.room.id2})
     => /\ out' = <<>>
        /\ UNCHANGED <<mem, db, sockHs>>]_vars

\* C5: a connection subscribed to direct-message room dm:x:y is bound to x or y.
C5_DmSubscribersAreParties ==
  \A c \in Conns : \A room \in rooms[c] :
    StartsWithDm(room) => sockUser[c] \in {room.id1, room.id2}

RoomScoped == {"get_messages", "join_room", "send_message", "edit_message",
               "delete_message", "toggle_reaction"}

\* C9: a room-scoped event on a connection with no bound identity changes
\* neither the database nor the presence table nor any subscription, starts no
\* handler and emits nothing.
C9_UnauthenticatedDropped ==
  [][(last'.op \in RoomScoped /\ sockUser[last'.conn] = NoUser) =>
       /\ out' = <<>>
       /\ UNCHANGED <<mem, db, sockHs, httpHs>>]_vars

\* An unbound connection has just sent a room-scoped event while a message is
\* stored and another connection is bound and subscribed.
C9_Witness ==
  /\ last.op \in RoomScoped
  /\ connState[last.conn] = "open"
  /\ sockUser[last.conn] = NoUser
  /\ messages # {}
  /\ \E c \in Conns : connState[c] = "open" /\ sockUser[c] # NoUser /\ General \in rooms[c]

\* C10: when the message of a send is broadcast, the sending connection, if
\* still open, gets the message event.
C10_SenderGetsOwnMessage ==
  [][(last'.op = "send_resume" /\ connState[last'.conn] = "open") =>
       Got(out', last'.conn, "message")]_vars

\* Socket c got event ev about message m with text `content` in the step just taken.
GotAbout(o, c, ev, m, content) ==
  \E i \in 1..Len(o) :
    o[i].ev = ev /\ c \in o[i].to /\ o[i].msg = m /\ o[i].content = content

\* The open connections bound to one of the two parties of direct-message room `room`.
PartyConns(room) ==
  {x \in Conns : connState[x] = "open" /\ sockUser[x] \in {room.id1, room.id2}}

\* C11: in the walk-through (authenticate only, then send, edit and delete in
\* dm:1:2) the edit of the message reaches every connection of both parties
\* as message_edited with the new content, its deletion reaches them as
\* message_deleted with its id, and a history fetch started afterwards does
\* not read a deleted message.
C11_EditAndDeleteReachBothParties ==
  [][/\ (last'.op = "edit_resume" /\ StartsWithDm(last'.room)) =>
          \A x \in PartyConns(last'.room) :
            GotAbout(out', x, "message_edited", editH[last'.conn].msg,
                     editH[last'.conn].content)
     /\ (last'.op = "delete_resume" /\ StartsWithDm(last'.room)) =>
          \A x \in PartyConns(last'.room) :
            GotAbout(out', x, "message_deleted", delH[last'.conn].msg, <<>>)
     /\ (last'.op = "get_messages" /\ getH'[last'.conn].pc = "db") =>
          getH'[last'.conn].ids \subseteq {m.id : m \in messages}]_vars

\* The handler of socket c has just returned from db.toggleReaction.
ToggleReturned(c) == reactH[c].pc = "del" /\ reactH'[c].pc # "del"

\* C12: a toggle_reaction of (m, u, e) on an existing message adds the triple
\* to the persisted reactions if it is absent and removes it if it is present,
\* so that two toggles in a row restore the set and the grouped view of m.
C12_ToggleFlipsTriple ==
  [][\A c \in Conns :
       (ToggleReturned(c) /\ Exists(reactH[c].msg)) =>
         LET t == <<reactH[c].msg, reactH[c].uid, reactH[c].emoji>>
         IN  /\ reactions' = IF t \in reactions THEN reactions \ {t}
                                                ELSE reactions \cup {t}
             /\ FormatReactions(reactions', t[1]) # FormatReactions(reactions, t[1])]_vars

\* C13: when a toggle_reaction handler on an existing message m finishes and
\* no other toggle on m is in flight, the step broadcasts reaction_updated for
\* m and the event carries the grouped view of the reactions persisted for m.
C13_LastBroadcastIsPersistedView ==
  [][\A c \in Conns :
       (/\ ToggleReturned(c)
        /\ reactH'[c].pc = "idle"
        /\ Exists(reactH[c].msg)
        /\ \A x \in Conns \ {c} : reactH[x].pc = "idle" \/ reactH[x].msg # reactH[c].msg)
       => \E i \in 1..Len(out') :
            /\ out'[i].ev = "reaction_updated"
            /\ out'[i].msg = reactH[c].msg
            /\ out'[i].items = FormatReactions(reactions', reactH[c].msg)]_vars

\* A payload send_message must refuse: no text after trimming and no image,
\* or an image over the size bound.
Refused(content, image) ==
  (Trim(content) = <<>> /\ image = 0) \/ image > MaxImageLen

\* C14: a send_message with a refused payload starts no save, changes no
\* table and broadcasts no message event; a send with an accepted payload by
\* an identity the room allows calls saveMessage with the trimmed text, and
\* the save adds the row; no stored row and no send in flight has a refused
\* payload.
C14_OnlyValidSendsPersist ==
  [][/\ \A c \in Conns, room \in DmRooms, content \in Contents, image \in ImageLens :
          SendStart(c, room, content, image) =>
            /\ Refused(content, image) =>
                 /\ UNCHANGED <<mem, db, sockHs>>
                 /\ \A i \in 1..Len(out') : out'[i].ev # "message"
            /\ (/\ ~Refused(content, image)
                /\ sockUser[c] # NoUser
                /\ RoomAllows(sockUser[c], room)) =>
                 sendH'[c] = [pc |-> "db", sender |-> sockUser[c], room |-> room,
                              content |-> Trim(content), image |-> image, id |-> 0]
     /\ \A c \in Conns :
          (sendH[c].pc = "db" /\ sendH'[c].pc = "saved") =>
            \E m \in messages' \ messages :
              /\ m.sender = sendH[c].sender /\ m.room = sendH[c].room
              /\ m.content = sendH[c].content /\ m.image = sendH[c].image
     /\ \A m \in messages' : ~Refused(m.content, m.image)
     /\ \A c \in Conns :
          sendH'[c].pc # "idle" => ~Refused(sendH'[c].content, sendH'[c].image)]_vars

\* An oversized image has just been refused with an error while a message
\* with an image and only whitespace for text is stored.
C14_Witness ==
  /\ last.op = "send_message"
  /\ Got(out, last.conn, "error")
  /\ \E m \in messages : m.image = 1 /\ m.content = <<>>

Mutations == {"message", "message_edited", "message_deleted", "reaction_updated"}

\* C15: a message event is emitted only for a row that has been inserted, a
\* message_edited event only for a row that carries the edited flag (or has
\* been deleted since), a message_deleted event only for a row that is gone;
\* the step in which the persistence call of a send, an edit, a delete or a
\* toggle rejects emits nothing and changes no table.
C15_BroadcastOnlyAfterCommit ==
  [][/\ \A i \in 1..Len(out') :
          /\ out'[i].ev = "message" =>
               out'[i].msg \in 1..(nextId - 1)
          /\ out'[i].ev = "message_edited" =>
               /\ out'[i].msg \in 1..(nextId - 1)
               /\ Exists(out'[i].msg) => Row(out'[i].msg).edited
          /\ out'[i].ev = "message_deleted" =>
               /\ out'[i].msg \in 1..(nextId - 1)
               /\ ~Exists(out'[i].msg)
          /\ out'[i].ev = "reaction_updated" =>
               \E c \in Conns : ToggleReturned(c) /\ reactions' # reactions
     /\ last'.op \in {"send_failed", "edit_failed", "delete_failed", "toggle_failed"} =>
          /\ \A i \in 1..Len(out') : out'[i].ev \notin Mutations
          /\ UNCHANGED db]_vars

\* The save of a message into a room with a subscriber has just been rejected.
C15_Witness ==
  /\ last.op = "send_failed"
  /\ \E c \in Conns : connState[c] = "open" /\ last.room \in rooms[c]
  /\ out = <<>>

\* The rows with id m that u sent.
OwnedBy(m, u) == {r \in messages : r.id = m /\ r.sender = u}

\* C16: an edit_message by a bound identity u with text that is empty after
\* trimming does nothing; otherwise the UPDATE changes message m iff m exists
\* and u sent it (admin or not), setting its content to the trimmed text and
\* its edited flag, and then message_edited with that text goes to the
\* subscribers of m's room; if m does not exist or is not u's, the tables are
\* unchanged and nothing is emitted.
C16_OnlySenderEdits ==
  [][/\ \A c \in Conns, id \in 1..MaxMsgs, content \in Edits :
          (EditStart(c, id, content) /\ sockUser[c] # NoUser) =>
            /\ UNCHANGED <<mem, db>>
            /\ out' = <<>>
            /\ IF Trim(content) = <<>>
                 THEN UNCHANGED sockHs
                 ELSE editH'[c] = [pc |-> "db", uid |-> sockUser[c], msg |-> id,
                                   content |-> Trim(content), room |-> NoRoom]
     /\ \A c \in Conns :
          (editH[c].pc = "db" /\ editH'[c].pc = "done") =>
            LET h == editH[c]
            IN  /\ out' = <<>>
                /\ UNCHANGED <<banned, nextId, reactions>>
                /\ IF OwnedBy(h.msg, h.uid) = {}
                     THEN /\ messages' = messages
                          /\ editH'[c].room = NoRoom
                     ELSE \E r \in OwnedBy(h.msg, h.uid) :
                            /\ messages' = (messages \ {r}) \cup
                                 {[r EXCEPT !.content = h.content, !.edited = TRUE]}
                            /\ editH'[c].room = r.room
     /\ \A c \in Conns :
          (editH[c].pc = "done" /\ editH'[c].pc = "idle") =>
            /\ UNCHANGED db
            /\ out' = IF editH[c].room = NoRoom
                        THEN <<>>
                        ELSE <<Emit("message_edited",
                                    {x \in Conns : connState[x] = "open"
                                                   /\ editH[c].room \in rooms[x]},
                                    NoUser, editH[c].room, editH[c].msg,
                                    editH[c].content)>>]_vars

\* The author's edit has just been broadcast to a subscriber: the row carries
\* the new text and the edited flag.
C16_Witness ==
  /\ last.op = "edit_resume"
  /\ \E i \in 1..Len(out) :
       /\ out[i].ev = "message_edited"
       /\ out[i].to # {}
       /\ out[i].content = <<"e">>
       /\ \E r \in messages :
            /\ r.id = out[i].msg /\ r.sender = last.user
            /\ r.edited /\ r.content = <<"e">>

\* C17: the DELETE of a delete_message by identity u removes message m iff m
\* exists and u sent it or u is an admin; then message_deleted with the id
\* only goes to the subscribers of m's room; otherwise the tables are
\* unchanged and nothing is emitted.
C17_OnlySenderOrAdminDeletes ==
  [][/\ \A c \in Conns, id \in 1..MaxMsgs :
          (DeleteStart(c, id) /\ sockUser[c] # NoUser) =>
            /\ UNCHANGED <<mem, db>>
            /\ out' = <<>>
            /\ delH'[c] = [pc |-> "db", uid |-> sockUser[c], admin |-> IsAdmin(sockUser[c]),
                           msg |-> id, room |-> NoRoom]
     /\ \A c \in Conns :
          (delH[c].pc = "db" /\ delH'[c].pc = "done") =>
            LET h == delH[c]
                gone == {r \in messages : r.id = h.msg /\ (r.sender = h.uid \/ IsAdmin(h.uid))}
            IN  /\ out' = <<>>
                /\ UNCHANGED <<banned, nextId>>
                /\ messages' = messages \ gone
                /\ IF gone = {}
                     THEN reactions' = reactions /\ delH'[c].room = NoRoom
                     ELSE \E r \in gone : delH'[c].room = r.room
     /\ \A c \in Conns :
          (delH[c].pc = "done" /\ delH'[c].pc = "idle") =>
            /\ UNCHANGED db
            /\ out' = IF delH[c].room = NoRoom
                        THEN <<>>
                        ELSE <<Emit("message_deleted",
                                    {x \in Conns : connState[x] = "open"
                                                   /\ delH[c].room \in rooms[x]},
                                    NoUser, delH[c].room, delH[c].msg, <<>>)>>]_vars

\* The admin's delete of another identity's message has just been broadcast
\* to a subscriber, before the send handler of that message resumed.
C17_Witness ==
  /\ last.op = "delete_resume"
  /\ IsAdmin(last.user)
  /\ messages = {}
  /\ \E i \in 1..Len(out), c \in Conns :
       /\ out[i].ev = "message_deleted"
       /\ out[i].to # {}
       /\ sendH[c].pc = "saved"
       /\ sendH[c].id = out[i].msg
       /\ sendH[c].sender # last.user

C19_BannedAuthenticateClosed ==
  [][\A c \in Conns :
       (/\ last'.op = "auth_resume" /\ last'.conn = c
        /\ authH[c].isBanned
        /\ connState[c] = "open")
       => /\ sockUser'[c] = sockUser[c]
          /\ \A u \in Users : Range(userSockets'[u]) \subseteq Range(userSockets[u])
          /\ rooms'[c] \subseteq rooms[c]
          /\ Emitted(out', "user_online", authH[c].uid) = 0
          /\ Got(out', c, "banned")
          /\ connState'[c] = "closed"]_vars

\* authenticated { success: false } sent to socket c
Nack(c) == <<ToSocket(connState, c, "authenticated", NoUser, NoRoom, 0, <<>>)>>

\* C20: an authenticate on unbound connection c with a token jwt.verify
\* rejects, or with a token of an id that has no user row, emits only
\* authenticated{success:false} to c and changes neither the connection nor
\* the presence table nor any subscription nor the database, and leaves the
\* authenticate handler of c idle; an authenticate with a token of a user who
\* is not banned binds c to that user and registers it, whatever came before.
C20_BadCredentialLeavesOpen ==
  [][\A c \in Conns :
       /\ (/\ last'.op = "authenticate" /\ last'.conn = c
           /\ last'.user = 0 /\ sockUser[c] = NoUser)
          => /\ out' = Nack(c)
             /\ UNCHANGED <<mem, db, sockHs>>
             /\ authH'[c].pc = "idle"
       /\ (/\ last'.op = "auth_resume" /\ last'.conn = c
           /\ authH[c].uid \notin Users /\ sockUser[c] = NoUser)
          => /\ out' = Nack(c)
             /\ UNCHANGED <<mem, db>>
             /\ authH'[c].pc = "idle"
       /\ (/\ last'.op = "auth_resume" /\ last'.conn = c
           /\ authH[c].uid \in Users /\ ~authH[c].isBanned)
          => /\ sockUser'[c] = authH[c].uid
             /\ c \in Range(userSockets'[authH[c].uid])
             /\ connState[c] = "open" =>
                  \E i \in 1..Len(out') :
                    out'[i].ev = "authenticated" /\ out'[i].flag /\ c \in out'[i].to]_vars

\* An open, unbound connection has just been refused for a credential of an
\* unknown user while another connection is bound and registered.
C20_Witness ==
  /\ last.op = "auth_resume"
  /\ last.user = UnknownUser
  /\ connState[last.conn] = "open"
  /\ sockUser[last.conn] = NoUser
  /\ \E i \in 1..Len(out) :
       out[i].ev = "authenticated" /\ ~out[i].flag /\ out[i].to = {last.conn}
  /\ \E x \in Conns \ {last.conn} :
       /\ connState[x] = "open"
       /\ sockUser[x] \in Users
       /\ x \in Range(userSockets[sockUser[x]])

\* C21: every open connection bound to an identity is subscribed to
\* 'general': the step that binds a connection subscribes it, and no step
\* takes 'general' from a connection that stays open.
C21_BoundMeansInGeneral ==
  [][\A c \in Conns :
       /\ (connState'[c] = "open" /\ sockUser'[c] # NoUser) => General \in rooms'[c]
       /\ sockUser'[c] # sockUser[c] => General \in rooms'[c]
       /\ (connState'[c] = "open" /\ General \in rooms[c]) => General \in rooms'[c]]_vars

\* A connection has just been bound and is subscribed to 'general' and to a
\* room it joined afterwards.
C21_Witness ==
  /\ last.op = "join_room"
  /\ connState[last.conn] = "open"
  /\ sockUser[last.conn] # NoUser
  /\ {General, Dm(1, 2)} \subseteq rooms[last.conn]

KeyIds == 1..MaxKeyId

\* The key is the same whoever of the two computes it, and differs for
\* different unordered pairs.
DmKeySymmetricInjective ==
  /\ \A a, b \in KeyIds : DmKey(a, b) = DmKey(b, a)
  /\ \A a, b, c, d \in KeyIds :
       {a, b} # {c, d} => DmKey(a, b) # DmKey(c, d)

\* C22: the direct-message key of a and b equals the key of b and a, with the
\* smaller id first, and different unordered pairs have different keys; the
\* key a client has just opened is the one its peer computes, and the server
\* reads the two ids back from it.
C22_DmKeySymmetric ==
  /\ DmKeySymmetricInjective
  /\ last.op = "open_dm" =>
       /\ last.key = DmKey(last.other, last.user)
       /\ last.room = Dm(Min(last.user, last.other), Max(last.user, last.other))

\* The party with the larger id has just opened the room its peer is
\* already subscribed to.
C22_Witness ==
  /\ last.op = "open_dm"
  /\ last.user > last.other
  /\ last.room \in rooms[last.conn]
  /\ \E x \in Conns \ {last.conn} :
       /\ connState[x] = "open"
       /\ sockUser[x] = last.other
       /\ last.room \in rooms[x]

\* The handlers of connection c that have started and not yet finished.
Running(c) ==
  {h \in {"authenticate", "send_message", "get_messages", "edit_message",
          "delete_message", "toggle_reaction"} :
     \/ h = "authenticate" /\ authH[c].pc # "idle"
     \/ h = "send_message" /\ sendH[c].pc # "idle"
     \/ h = "get_messages" /\ getH[c].pc # "idle"
     \/ h = "edit_message" /\ editH[c].pc # "idle"
     \/ h = "delete_message" /\ delH[c].pc # "idle"
     \/ h = "toggle_reaction" /\ reactH[c].pc # "idle"}

\* C23: at most one handler of a connection is between its start and its
\* completion: the handler of the next event of the connection starts only
\* when the one before has finished.
C23_OneHandlerPerConnection ==
  \A c \in Conns : Cardinality(Running(c)) <= 1

\* C27: the step in which the persistence call of a send, an edit, a delete
\* or a toggle rejects sends a failure event to the calling connection, if it
\* is still open, and to nobody else.
C27_FailureSurfacedToCaller ==
  [][(/\ last'.op \in {"send_failed", "edit_failed", "delete_failed", "toggle_failed"}
      /\ connState[last'.conn] = "open")
     => /\ out' # <<>>
        /\ \A i \in 1..Len(out') : out'[i].to = {last'.conn}]_vars

\* C28: when an authorized get_messages(room) completes on an open, bound
\* connection, the connection is subscribed to room.
C28_HistoryFetchSubscribes ==
  [][(/\ last'.op = "get_resume"
      /\ connState'[last'.conn] = "open"
      /\ sockUser'[last'.conn] # NoUser)
     => last'.room \in rooms'[last'.conn]]_vars

\* C29: when the toggle_reaction handler of a bound identity on a stored
\* message finishes, it has broadcast reaction_updated for that message to
\* the subscribers of the message's room.
C29_ToggleAlwaysBroadcasts ==
  [][\A c \in Conns :
       (/\ ToggleReturned(c)
        /\ reactH'[c].pc = "idle"
        /\ \E r \in messages' : r.id = reactH[c].msg)
       => \E i \in 1..Len(out'), r \in messages' :
            /\ r.id = reactH[c].msg
            /\ out'[i].ev = "reaction_updated"
            /\ out'[i].msg = r.id
            /\ out'[i].to = {x \in Conns : connState'[x] = "open" /\ r.room \in rooms'[x]}]_vars

\* C30: the message events of a room are broadcast in ascending id: when a
\* message is broadcast, no message of the same room with a smaller id is
\* still waiting, saved, for its broadcast.
C30_BroadcastInCommitOrder ==
  [][\A c \in Conns :
       (last'.op = "send_resume" /\ last'.conn = c) =>
         \A x \in Conns \ {c} :
           (sendH[x].pc = "saved" /\ sendH[x].room = sendH[c].room)
             => sendH[x].id > sendH[c].id]_vars

\* C24: the DELETE of an admin's clear-room request removes exactly the rows
\* of the given room, and the step after it emits room_cleared for the room to
\* exactly the open connections subscribed to it then, and answers 200.
C24_ClearRemovesOneRoom ==
  [][/\ \A r \in Requesters, room \in DmRooms :
          (ClearStart(r, room) /\ r # NoUser /\ IsAdmin(r)) =>
            /\ clearH' = [pc |-> "db", room |-> room]
            /\ out' = <<>>
            /\ UNCHANGED <<mem, db>>
     /\ (clearH.pc = "db" /\ clearH'.pc = "done") =>
          /\ messages' = {m \in messages : m.room # clearH.room}
          /\ \A m \in messages' : m.room # clearH.room
          /\ UNCHANGED <<mem, banned, nextId>>
          /\ out' = <<>>
     /\ (clearH.pc = "done" /\ clearH'.pc = "idle") =>
          /\ UNCHANGED <<mem, db>>
          /\ out' = <<Emit("room_cleared",
                           {x \in Conns : connState[x] = "open" /\ clearH.room \in rooms[x]},
                           NoUser, clearH.room, 0, <<>>),
                      Http(200, NoUser)>>]_vars

\* A room has just been cleared and its subscriber told, while the message of
\* another room is still stored.
C24_Witness ==
  /\ last.op = "clear_done"
  /\ nextId = 3
  /\ \E m \in messages : m.room # last.room
  /\ \A m \in messages : m.room # last.room
  /\ \E i \in 1..Len(out) : out[i].ev = "room_cleared" /\ out[i].to # {}

\* C25: a ban or clear-room request without a valid token or by an identity
\* that is not an admin, and a ban request of an admin against itself or
\* against an id without a user row, gets an error response only: no table, no
\* connection, no subscription and no handler changes, and nothing is emitted
\* to any connection.
C25_RejectedAdminRequestChangesNothing ==
  [][/\ \A r \in Requesters, t \in Users \cup {UnknownUser} :
          (BanStart(r, t) /\ (r = NoUser \/ ~IsAdmin(r) \/ t = r \/ t \notin Users)) =>
            /\ Len(out') = 1
            /\ out'[1].ev = "http" /\ out'[1].msg \in {400, 401, 403, 404}
            /\ UNCHANGED <<mem, db, sockHs, httpHs>>
     /\ \A r \in Requesters, room \in DmRooms :
          (ClearStart(r, room) /\ (r = NoUser \/ ~IsAdmin(r))) =>
            /\ Len(out') = 1
            /\ out'[1].ev = "http" /\ out'[1].msg \in {401, 403}
            /\ UNCHANGED <<mem, db, sockHs, httpHs>>]_vars

\* The admin's ban of an id without a user row has just been refused while a
\* connection is bound and a message is stored.
C25_Witness ==
  /\ last.op = "ban"
  /\ last.user = UnknownUser
  /\ \E i \in 1..Len(out) : out[i].ev = "http" /\ out[i].msg = 404
  /\ messages # {}
  /\ \E c \in Conns : connState[c] = "open" /\ sockUser[c] # NoUser

\* C26: a send_message of a bound connection with a refused payload (no text
\* and no image, or an oversized image) sends an error event to that
\* connection and to nobody else; an avatar request with a malformed colour or
\* an oversized image gets an error response, stores nothing and broadcasts
\* no avatar_updated.
C26_ValidationFailureReported ==
  [][/\ \A c \in Conns, content \in Contents, image \in ImageLens :
          (/\ SendStart(c, General, content, image)
           /\ sockUser[c] # NoUser
           /\ Refused(content, image))
          => out' = <<Emit("error", {c}, NoUser, NoRoom, 0, <<>>)>>
     /\ \A r \in Users, color \in Colors, image \in AvatarLens :
          (AvatarStart(r, color, image) /\ (~ValidColor(color) \/ image > MaxAvatarLen))
          => /\ out' = <<Http(400, r)>>
             /\ UNCHANGED <<mem, db, sockHs, httpHs>>]_vars

C32_SessionMonotone ==
  [][\A c \in Conns :
       /\ (connState[c] = "open" /\ sockUser[c] # NoUser) => sockUser'[c] = sockUser[c]
       /\ \A u \in Users :
            (connState'[c] = "open" /\ c \in Range(userSockets'[u])) => sockUser'[c] = u]_vars

\* C33: a connection whose authenticate request has been acknowledged with
\* authenticated{success:true} and registered, and is waiting for the roster,
\* is not sent authenticated{success:false}.
C33_OneAckPerAuthenticate ==
  [][\A c \in Conns :
       (authH[c].pc = "roster" /\ sockUser[c] = authH[c].uid) =>
         ~\E i \in 1..Len(out') :
            /\ out'[i].ev = "authenticated"
            /\ c \in out'[i].to
            /\ ~out'[i].flag]_vars

\* C34: every stored message whose room key starts with "dm:" has a key of
\* exactly two ids, the smaller first, and its sender is one of the two.
C34_DmStoredUnderCanonicalKey ==
  \A m \in messages :
    StartsWithDm(m.room) =>
      /\ m.room.tail = 0
      /\ m.room.id1 \in Users /\ m.room.id2 \in Users
      /\ m.room.id1 < m.room.id2
      /\ m.sender \in {m.room.id1, m.room.id2}

\* C35: the history read by get_messages of a bound connection is the newest
\* HistoryLimit rows of the room, and when the step before was the broadcast
\* of a message to the room, that message is among them.
C35_HistoryIsNewest ==
  [][\A c \in Conns :
       (GetStart(c, General) /\ sockUser[c] # NoUser) =>
         LET all == {m.id : m \in {x \in messages : x.room = General}}
         IN  /\ getH'[c].ids =
                  {i \in all : Cardinality({j \in all : j > i}) < HistoryLimit}
             /\ (last.op = "send_resume" /\ last.room = General /\ out # <<>>) =>
                  out[Len(out)].msg \in getH'[c].ids]_vars

\* C36: the step that binds a connection leaves it subscribed to exactly
\* {general}; the step that closes a connection takes it out of every room,
\* and no event is sent to a closed connection.
C36_SubscriptionsPerConnection ==
  [][\A c \in Conns :
       /\ (AuthResume(c) /\ authH'[c].pc = "roster") => rooms'[c] = {General}
       /\ (connState[c] = "open" /\ connState'[c] = "closed") => rooms'[c] = {}
       /\ connState'[c] = "closed" => \A i \in 1..Len(out') : c \notin out'[i].to]_vars

\* C37: the message event of a send carries the id that the save assigned to
\* the row and the sender stored in that row, which is the identity that was
\* bound to the connection when it sent; no other step emits a message event,
\* and no id is assigned twice.
C37_EventCarriesPersistedIdentity ==
  [][/\ \A c \in Conns :
          SendResume(c) =>
            /\ Len(out') = 1
            /\ out'[1].ev = "message"
            /\ out'[1].msg = sendH[c].id
            /\ out'[1].user = sendH[c].sender
            /\ \A m \in messages : m.id = sendH[c].id => m.sender = out'[1].user
     /\ (\E i \in 1..Len(out') : out'[i].ev = "message") => last'.op = "send_resume"
     /\ \A c \in Conns :
          SendCommit(c) =>
            /\ sendH'[c].id \notin {m.id : m \in messages}
            /\ \A d \in Conns : d # c => sendH[d].id # sendH'[c].id
            /\ \E m \in messages' : m.id = sendH'[c].id /\ m.sender = sendH[c].sender]_vars

\* C38: join_room on a bound connection leaves it subscribed to what it was
\* subscribed to plus the room, so a second join_room of the room changes
\* nothing; a broadcast to a room is one message event, addressed once to
\* each open connection subscribed to the room, whichever way it subscribed.
C38_JoinRoomIdempotent ==
  [][/\ \A c \in Conns, room \in DmRooms :
          (JoinRoom(c, room) /\ sockUser[c] # NoUser) =>
            /\ rooms'[c] = rooms[c] \cup {room}
            /\ \A d \in Conns : d # c => rooms'[d] = rooms[d]
            /\ room \in rooms[c] => rooms' = rooms
            /\ out' = <<>>
     /\ \A c \in Conns :
          SendResume(c) =>
            \A d \in Conns :
              Cardinality({i \in 1..Len(out') :
                             out'[i].ev = "message" /\ d \in out'[i].to})
                = IF connState[d] = "open" /\ sendH[c].room \in rooms'[d] THEN 1 ELSE 0]_vars

\* A bound connection has just asked to join the direct-message room it was
\* subscribed to already.
C38_Witness ==
  /\ last.op = "join_room"
  /\ last.member
  /\ last.user # NoUser
  /\ last.room = Dm(1, 2)
  /\ Dm(1, 2) \in rooms[last.conn]

\* the sum of the counts of the entries of a grouped view
RECURSIVE SumOfCounts(_)
SumOfCounts(view) ==
  IF view = <<>> THEN 0 ELSE Head(view).count + SumOfCounts(Tail(view))

====
